---- MODULE Spec2Model ----
(***************************************************************************)
(* Pasfini: entity store (IndexedDB issues/photos + localStorage           *)
(* rooms/assignees) and the ZIP archive export/import.                     *)
(*                                                                         *)
(* Strings that the code concatenates, splits or compares piecewise        *)
(* (issue ids, file names, paths, MIME types) are sequences of tokens; the *)
(* token alphabet is uniquely decodable, so two token sequences are equal  *)
(* exactly when the strings they spell are equal.  Other strings are       *)
(* atoms.  A JavaScript `undefined` string is the one-token sequence Undef *)
(* (or the atom UndefAtom), an empty string is <<>> (or "").               *)
(***************************************************************************)
EXTENDS Integers, Sequences, FiniteSets, TLC

VARIABLES issues, photos, lsRooms, lsAssignees, now, usedUuids, imp, exp, del, last,
          ui

vars == <<issues, photos, lsRooms, lsAssignees, now, usedUuids, imp, exp, del, last, ui>>

(***************************************************************************)
(* Bounds of the model                                                     *)
(***************************************************************************)
MaxUuid == 2
MaxExportLen == 3
MaxEntries == 2
MaxPhotoEntries == 2
MaxRoomEntries == 2
MaxSubmits == 2
MaxPending == 2

(***************************************************************************)
(* JavaScript values                                                       *)
(***************************************************************************)
Undef == <<"\\undefined">>
UndefAtom == "\\undefined"
NaN == 0 - 1

Truthy(s) == s # Undef /\ s # <<>>
TruthyAtom(s) == s # UndefAtom /\ s # ""

\* a || b on token strings and on atoms
OrElse(a, b) == IF Truthy(a) THEN a ELSE b
OrElseAtom(a, b) == IF TruthyAtom(a) THEN a ELSE b

\* String.prototype.toLowerCase, token by token
LowerTok(t) == CASE t = "JPG" -> "jpg"
                 [] t = "PNG" -> "png"
                 [] t = "SVG" -> "svg"
                 [] OTHER -> t
ToLower(s) == [k \in 1..Len(s) |-> LowerTok(s[k])]

\* positions of a separator token in a string
Positions(s, sep) == {k \in 1..Len(s) : s[k] = sep}
MaxOf(S) == CHOOSE m \in S : \A x \in S : x <= m
MinOf(S) == CHOOSE m \in S : \A x \in S : m <= x

\* s.split('.').pop(): what follows the last '.', the whole string when
\* there is none
LastDotPart(s) ==
  IF Positions(s, ".") = {} THEN s
  ELSE SubSeq(s, MaxOf(Positions(s, ".")) + 1, Len(s))

\* s.split('/')[1]: what lies between the first and the second '/'
SecondSlashPart(s) ==
  LET ps == Positions(s, "/")
      first == MinOf(ps)
      rest == {k \in ps : k > first}
  IN SubSeq(s, first + 1, IF rest = {} THEN Len(s) ELSE MinOf(rest) - 1)

SAFE_EXTENSIONS == {<<"jpg">>, <<"jpeg">>, <<"png">>, <<"gif">>, <<"webp">>}
DEFAULT_EXTENSION == <<"jpg">>

\* new Date(ms).toISOString(): a RangeError for an invalid time value
IsoThrows(ms) == ms = NaN
ToISOString(ms) == [kind |-> "iso", t |-> ms]

\* new Date(str).getTime(): NaN for a string that is no date
DateGetTime(d) == IF d.kind = "iso" THEN d.t ELSE NaN
DateAbsent == [kind |-> "absent", t |-> 0]
DateGarbage == [kind |-> "garbage", t |-> 0]
\* x ? new Date(x).getTime() : Date.now()
ParseOrNow(d, clock) == IF d.kind = "absent" THEN clock ELSE DateGetTime(d)

(***************************************************************************)
(* The two object stores, keyed by id (db.ts)                              *)
(***************************************************************************)
\* variant: store.add - a record whose key is in the store is not replaced
PutIfAbsent(store, rec) ==
  IF rec.id \in DOMAIN store THEN store
  ELSE [k \in (DOMAIN store) \cup {rec.id} |-> IF k = rec.id THEN rec ELSE store[k]]

\* store.put(rec) on an object store with keyPath 'id'
Put(store, rec) ==
  [k \in (DOMAIN store) \cup {rec.id} |-> IF k = rec.id THEN rec ELSE store[k]]

\* store.get(id): the record, or undefined
getIssue(store, id) ==
  IF id \in DOMAIN store THEN [found |-> TRUE, value |-> store[id]]
  ELSE [found |-> FALSE, value |-> Undef]

Remove(store, keys) == [k \in (DOMAIN store) \ keys |-> store[k]]

EmptyStore == [k \in {} |-> k]

\* order of the keys of the photo store (IndexedDB orders string keys)
PhotoKeyOrder == <<"p1", "p2", "p3", "u1", "u2", "u3", "u4">>
KeyRank(id) == CHOOSE k \in 1..Len(PhotoKeyOrder) : PhotoKeyOrder[k] = id

RECURSIVE SortedKeys(_)
SortedKeys(S) ==
  IF S = {} THEN <<>>
  ELSE LET m == CHOOSE x \in S : \A y \in S : KeyRank(x) <= KeyRank(y)
       IN <<m>> \o SortedKeys(S \ {m})

\* index('issueId').getAll(issueId): the records of the issue in key order
getPhotosByIssue(store, issueId) ==
  LET ids == {k \in DOMAIN store : store[k].issueId = issueId}
      order == SortedKeys(ids)
  IN [k \in 1..Len(order) |-> store[order[k]]]


(***************************************************************************)
(* localStorage entries: a key is absent or holds a JSON list              *)
(***************************************************************************)
LsAbsent == [present |-> FALSE, list |-> <<>>]
LsList(l) == [present |-> TRUE, list |-> l]

\* stored ? JSON.parse(stored) : []
LsRead(entry) == IF entry.present THEN entry.list ELSE <<>>

SlugsOf(list) == {list[k].slug : k \in 1..Len(list)}

(***************************************************************************)
(* importZip (zip.ts): validation helpers                                  *)
(***************************************************************************)
\* variant: only the missing report.json is detected
MalformedNoReportOnly(ar) == ar.kind = "noreport"

\* report.json missing, or without an `issues` array
Malformed(ar) == ar.kind # "ok"

\* the filter on reportData.rooms / reportData.assignees
ValidNamed(r) == TruthyAtom(r.slug) /\ TruthyAtom(r.name)
ValidEntries(list) == SelectSeq(list, ValidNamed)

\* variant: merge mode pushes every valid entry of the archive
MergeAppendedAll(existing, valid) == valid

\* merge mode: push the imported entries whose slug is not in the set of
\* slugs read from the stored list before the loop
MergeAppended(existing, valid) ==
  LET existingSlugs == SlugsOf(existing)
      fresh(r) == r.slug \notin existingSlugs
  IN SelectSeq(valid, fresh)

\* variant: merge mode stores the list of the archive, as replace mode does
RestoreListOverwrites(entry, field, mode) ==
  IF field.kind # "list" \/ Len(ValidEntries(field.list)) = 0
  THEN [entry |-> entry, count |-> 0, wrote |-> FALSE]
  ELSE [entry |-> LsList(ValidEntries(field.list)),
        count |-> Len(ValidEntries(field.list)), wrote |-> TRUE]

\* variant: merge mode counts every valid entry of the archive
RestoreListCountsValid(entry, field, mode) ==
  IF field.kind # "list" \/ Len(ValidEntries(field.list)) = 0
  THEN [entry |-> entry, count |-> 0, wrote |-> FALSE]
  ELSE IF mode = "merge"
       THEN LET existing == LsRead(entry)
                added == MergeAppended(existing, ValidEntries(field.list))
            IN [entry |-> LsList(existing \o added),
                count |-> Len(ValidEntries(field.list)), wrote |-> TRUE]
       ELSE [entry |-> LsList(ValidEntries(field.list)),
             count |-> Len(ValidEntries(field.list)), wrote |-> TRUE]

\* the new localStorage entry and the count for one of the two lists
RestoreList(entry, field, mode) ==
  IF field.kind # "list" \/ Len(ValidEntries(field.list)) = 0
  THEN [entry |-> entry, count |-> 0, wrote |-> FALSE]
  ELSE IF mode = "merge"
       THEN LET existing == LsRead(entry)
                added == MergeAppended(existing, ValidEntries(field.list))
            IN [entry |-> LsList(existing \o added), count |-> Len(added),
                wrote |-> TRUE]
       ELSE [entry |-> LsList(ValidEntries(field.list)),
             count |-> Len(ValidEntries(field.list)), wrote |-> TRUE]

\* variant: the title is not checked
EntryValidNoTitle(e) == Truthy(e.id) /\ TruthyAtom(e.roomSlug)

\* if (!issueData.id || !issueData.roomSlug || !issueData.title) continue
EntryValid(e) == Truthy(e.id) /\ TruthyAtom(e.roomSlug) /\ TruthyAtom(e.title)

\* variant: every extension is accepted
SafePathAny(path) == TRUE

\* the extension check on a path
SafePath(path) ==
  LET ext == ToLower(LastDotPart(path))
  IN ext # <<>> /\ ext \in SAFE_EXTENSIONS

HasFile(ar, path) == path \in DOMAIN ar.files

\* the three `continue`s of the photo loop
PhotoSkipped(ar, pd) ==
  \/ ~Truthy(pd.path)
  \/ ~SafePath(pd.path)
  \/ ~HasFile(ar, pd.path)

\* variant: the extension of the thumbnail path is not checked
ThumbnailOfAnyExtension(ar, pd) ==
  LET thumbPath == IF pd.isString THEN Undef ELSE pd.thumbnailPath
  IN IF Truthy(thumbPath) /\ HasFile(ar, thumbPath)
     THEN ar.files[thumbPath]
     ELSE ar.files[pd.path]

\* the thumbnail of a photo entry that is not skipped
ThumbnailOf(ar, pd) ==
  LET thumbPath == IF pd.isString THEN Undef ELSE pd.thumbnailPath
  IN IF Truthy(thumbPath) /\ SafePath(thumbPath) /\ HasFile(ar, thumbPath)
     THEN ar.files[thumbPath]
     ELSE ar.files[pd.path]

UndefNum == 0 - 2
NumOrZero(n) == IF n \in {UndefNum, NaN, 0} THEN 0 ELSE n

LegacyMime(path) ==
  LET ext == ToLower(LastDotPart(path))
  IN <<"image", "/">> \o (IF ext = <<"jpg">> THEN <<"jpeg">> ELSE ext)

\* variant: only a structured entry without id gets a generated id
NeedsUuidObjectsOnly(pd) == ~pd.isString /\ ~TruthyAtom(pd.id)

\* isOldFormat ? crypto.randomUUID() : (photoData.id || crypto.randomUUID())
NeedsUuid(pd) == pd.isString \/ ~TruthyAtom(pd.id)

\* the PhotoRef built from a photo entry that is not skipped
PhotoRefOf(ar, e, pd, uuid, clock) ==
  [id |-> IF NeedsUuid(pd) THEN uuid ELSE pd.id,
   issueId |-> e.id,
   mimeType |-> IF pd.isString THEN LegacyMime(pd.path)
                ELSE OrElse(pd.mimeType, <<"image", "/", "jpeg">>),
   width |-> IF pd.isString THEN 0 ELSE NumOrZero(pd.width),
   height |-> IF pd.isString THEN 0 ELSE NumOrZero(pd.height),
   createdAt |-> IF pd.isString THEN clock ELSE ParseOrNow(pd.createdAt, clock),
   blob |-> ar.files[pd.path],
   thumbnailBlob |-> ThumbnailOf(ar, pd)]

\* variant: the comparison ignores the case
NormStatusAnyCase(s) == IF s \in {"done", "Done"} THEN "done" ELSE "open"

\* issueData.status === 'done' ? 'done' : 'open'
NormStatus(s) == IF s = "done" THEN "done" ELSE "open"

\* issueData.type === 'todo' ? 'todo' : 'reserve'
NormType(t) == IF t = "todo" THEN "todo" ELSE "reserve"

\* the Issue built from a valid entry and the ids of its saved photos
IssueOf(e, photoIds, clock) ==
  [id |-> e.id,
   code |-> OrElseAtom(e.code, UndefAtom),
   roomSlug |-> e.roomSlug,
   assigneeSlug |-> OrElseAtom(e.assigneeSlug, UndefAtom),
   type |-> NormType(e.type),
   title |-> e.title,
   description |-> OrElseAtom(e.description, ""),
   status |-> NormStatus(e.status),
   createdAt |-> ParseOrNow(e.createdAt, clock),
   updatedAt |-> ParseOrNow(e.updatedAt, clock),
   photos |-> photoIds]

\* variant: the mode is ignored and nothing is cleared
ClearsFirstNever(mode) == FALSE

\* variant: the mode is ignored and the store is always cleared
ClearsFirstAlways(mode) == TRUE

\* mode === 'replace': clearAllData() runs before anything is written
ClearsFirst(mode) == mode = "replace"


(***************************************************************************)
(* generateZipBlob (zip.ts): helpers                                       *)
(***************************************************************************)
\* variant: the MIME subtype is taken as it is
ExtOfMimeUnchecked(m) ==
  LET mimeType == OrElse(m, <<"image", "/", "jpeg">>)
  IN IF Positions(mimeType, "/") # {} THEN ToLower(SecondSlashPart(mimeType))
     ELSE DEFAULT_EXTENSION

\* extension from the MIME subtype, jpg when it is not on the allow-list
ExtOfMime(m) ==
  LET mimeType == OrElse(m, <<"image", "/", "jpeg">>)
  IN IF Positions(mimeType, "/") # {}
     THEN LET extractedExt == ToLower(SecondSlashPart(mimeType))
          IN IF extractedExt \in SAFE_EXTENSIONS THEN extractedExt
             ELSE DEFAULT_EXTENSION
     ELSE DEFAULT_EXTENSION

\* while (usedFilenames.has(filename)) filename = `${base}-${counter++}.${ext}`
RECURSIVE NextFree(_, _, _, _)
NextFree(used, base, ext, counter) ==
  LET filename == base \o <<"-", ToString(counter), ".">> \o ext
  IN IF filename \in used THEN NextFree(used, base, ext, counter + 1)
     ELSE filename

\* variant: the counter is tried once: `if` instead of `while`
UniqueNameOnce(used, base, ext) ==
  LET filename == base \o <<".">> \o ext
  IN IF filename \in used THEN base \o <<"-", "1", ".">> \o ext ELSE filename

\* the two "generate unique filename" blocks
UniqueName(used, base, ext) ==
  LET filename == base \o <<".">> \o ext
  IN IF filename \in used THEN NextFree(used, base, ext, 1) ELSE filename

ImgPath(filename) == <<"img/">> \o filename

\* imgFolder.file(name, data): adds the file or replaces the one of that name
WriteFile(files, path, data) ==
  [q \in (DOMAIN files) \cup {path} |-> IF q = path THEN data ELSE files[q]]

\* the loop over the photos of one issue, from photo i on; `threw` when
\* toISOString raised a RangeError building the detail of a photo
RECURSIVE ExportPhotos(_, _, _, _)
ExportPhotos(issueId, ps, i, acc) ==
  IF i > Len(ps) THEN acc
  ELSE LET photo == ps[i]
           extension == ExtOfMime(photo.mimeType)
           filename == UniqueName(acc.used, issueId \o <<"-", ToString(i)>>, extension)
           used1 == acc.used \cup {filename}
           thumbFilename ==
             UniqueName(used1, issueId \o <<"-", ToString(i), "-", "thumb">>, extension)
           used2 == used1 \cup {thumbFilename}
           files2 == WriteFile(WriteFile(acc.files, ImgPath(filename), photo.blob),
                               ImgPath(thumbFilename), photo.thumbnailBlob)
           writes2 == acc.writes \o <<ImgPath(filename), ImgPath(thumbFilename)>>
           detail == [isString |-> FALSE,
                      path |-> ImgPath(filename),
                      id |-> photo.id,
                      mimeType |-> photo.mimeType,
                      width |-> photo.width,
                      height |-> photo.height,
                      thumbnailPath |-> ImgPath(thumbFilename),
                      createdAt |-> ToISOString(photo.createdAt)]
       IN IF IsoThrows(photo.createdAt)
          THEN [used |-> used2, files |-> files2, writes |-> writes2,
                details |-> acc.details, threw |-> TRUE]
          ELSE ExportPhotos(issueId, ps, i + 1,
                 [used |-> used2, files |-> files2, writes |-> writes2,
                  details |-> Append(acc.details, detail), threw |-> FALSE])

\* roomMap.get(slug) || slug
RoomNameOf(rooms, slug) ==
  LET hits == {k \in 1..Len(rooms) : rooms[k].slug = slug}
  IN IF hits = {} THEN slug
     ELSE OrElseAtom(rooms[MaxOf(hits)].name, slug)

\* variant: photoCount is the length of the photos list of the issue
createIssueExportDataListed(issue, roomName, photoDetails) ==
  [id |-> issue.id,
   code |-> IF issue.code = UndefAtom THEN "" ELSE issue.code,
   roomSlug |-> issue.roomSlug,
   roomName |-> roomName,
   assigneeSlug |-> IF issue.assigneeSlug = UndefAtom THEN "" ELSE issue.assigneeSlug,
   type |-> OrElseAtom(issue.type, "reserve"),
   title |-> issue.title,
   description |-> issue.description,
   status |-> issue.status,
   createdAt |-> ToISOString(issue.createdAt),
   updatedAt |-> ToISOString(issue.updatedAt),
   photoCount |-> Len(issue.photos),
   photos |-> photoDetails]

createIssueExportData(issue, roomName, photoDetails) ==
  [id |-> issue.id,
   code |-> IF issue.code = UndefAtom THEN "" ELSE issue.code,
   roomSlug |-> issue.roomSlug,
   roomName |-> roomName,
   assigneeSlug |-> IF issue.assigneeSlug = UndefAtom THEN "" ELSE issue.assigneeSlug,
   type |-> OrElseAtom(issue.type, "reserve"),
   title |-> issue.title,
   description |-> issue.description,
   status |-> issue.status,
   createdAt |-> ToISOString(issue.createdAt),
   updatedAt |-> ToISOString(issue.updatedAt),
   photoCount |-> Len(photoDetails),
   photos |-> photoDetails]

\* room letters and their order under localeCompare; '\uffff' sorts last
LetterOrder == <<"K", "N", "Z", "\\uffff">>
LetterRank(l) == CHOOSE k \in 1..Len(LetterOrder) : LetterOrder[k] = l

\* roomLetterMap.get(slug) || '\uffff'
RoomLetterOf(rooms, slug) ==
  LET hits == {k \in 1..Len(rooms) : rooms[k].slug = slug}
  IN IF hits = {} THEN "\\uffff"
     ELSE OrElseAtom(rooms[MaxOf(hits)].letter, "\\uffff")

\* the keys of `grouped`, in the order of their first issue
RECURSIVE GroupKeys(_, _)
GroupKeys(list, seen) ==
  IF list = <<>> THEN <<>>
  ELSE IF Head(list).roomSlug \in seen THEN GroupKeys(Tail(list), seen)
       ELSE <<Head(list).roomSlug>>
            \o GroupKeys(Tail(list), seen \cup {Head(list).roomSlug})

\* Array.prototype.sort is stable: insert each key after the keys that do
\* not sort after it
RECURSIVE InsertByLetter(_, _, _)
InsertByLetter(sorted, slug, rooms) ==
  IF sorted = <<>> THEN <<slug>>
  ELSE IF LetterRank(RoomLetterOf(rooms, Head(sorted)))
            <= LetterRank(RoomLetterOf(rooms, slug))
       THEN <<Head(sorted)>> \o InsertByLetter(Tail(sorted), slug, rooms)
       ELSE <<slug>> \o sorted

RECURSIVE SortByLetter(_, _)
SortByLetter(keys, rooms) ==
  IF keys = <<>> THEN <<>>
  ELSE InsertByLetter(SortByLetter(SubSeq(keys, 1, Len(keys) - 1), rooms),
                      keys[Len(keys)], rooms)

RECURSIVE ConcatGroups(_, _)
ConcatGroups(slugs, list) ==
  IF slugs = <<>> THEN <<>>
  ELSE LET inRoom(i) == i.roomSlug = Head(slugs)
       IN SelectSeq(list, inRoom) \o ConcatGroups(Tail(slugs), list)

\* the order in which the issues are processed: grouped by room, rooms
\* sorted by letter, input order inside a room
ExportOrder(list, rooms) == ConcatGroups(SortByLetter(GroupKeys(list, {}), rooms), list)


(***************************************************************************)
(* State of the operations in flight                                       *)
(***************************************************************************)
NoFiles == [q \in {} |-> q]

NoField == [kind |-> "absent", list |-> <<>>]

NoArchive ==
  [kind |-> "ok", entries |-> <<>>, rooms |-> NoField, assignees |-> NoField,
   files |-> NoFiles, totalIssues |-> 0, openIssues |-> 0, doneIssues |-> 0]

Snapshot ==
  [issues |-> issues, photos |-> photos, rooms |-> lsRooms, assignees |-> lsAssignees]

NoSnapshot ==
  [issues |-> EmptyStore, photos |-> EmptyStore, rooms |-> LsAbsent,
   assignees |-> LsAbsent]

ImpIdle ==
  [pc |-> "idle", mode |-> "merge", src |-> "external", ar |-> NoArchive,
   i |-> 1, j |-> 1, photoIds |-> <<>>, issueCount |-> 0, photoCount |-> 0,
   roomCount |-> 0, assigneeCount |-> 0, cleared |-> FALSE,
   wroteUncleared |-> FALSE, written |-> {}, pre |-> NoSnapshot]

ExpIdle ==
  [pc |-> "idle", order |-> <<>>, rooms |-> <<>>, assignees |-> <<>>, k |-> 1,
   used |-> {}, files |-> NoFiles, writes |-> <<>>, entries |-> <<>>,
   total |-> 0, open |-> 0, done |-> 0, snapshot |-> FALSE, threw |-> {},
   input |-> <<>>]

DelIdle == [pc |-> "idle", id |-> <<>>, photoIds |-> {}, pre |-> NoSnapshot]

\* the forms of main.ts: pendingPhotos, the running handleAddSubmit calls,
\* and editIssueRef / editExistingPhotoIds / editPendingPhotos
NoIssue ==
  [id |-> <<>>, code |-> UndefAtom, roomSlug |-> "", assigneeSlug |-> UndefAtom,
   type |-> "reserve", title |-> "", description |-> "", status |-> "open",
   createdAt |-> 0, updatedAt |-> 0, photos |-> <<>>]

AddIdle ==
  [pc |-> "idle", issueId |-> <<>>, list |-> <<>>, j |-> 1, photoIds |-> <<>>,
   clock |-> 0]

EditIdle ==
  [pc |-> "idle", ref |-> NoIssue, existing |-> <<>>, pending |-> <<>>,
   removed |-> <<>>, j |-> 1, clock |-> 0]

UiIdle ==
  [pendingPhotos |-> <<>>, add |-> [h \in 1..MaxSubmits |-> AddIdle],
   edit |-> EditIdle, assignees |-> <<>>, rooms |-> <<>>]

\* listAssignees(): the stored list, or no assignee
getAssignees(entry) == IF entry.present THEN entry.list ELSE <<>>

\* saveAssignees(list): the whole list is replaced
saveAssignees(list) == LsList(list)

LastNone ==
  [valid |-> FALSE, ar |-> NoArchive, mode |-> "merge", before |-> 0,
   issueCount |-> 0, rooms |-> LsAbsent, assignees |-> LsAbsent]

Running(p) == p.pc \notin {"idle", "done", "failed"}

\* no operation is in flight: the UI starts one operation at a time
Idle == ~Running(imp) /\ ~Running(exp) /\ ~Running(del)

\* Date.now()
Clock == 100 + now

UuidPool == {PhotoKeyOrder[k] : k \in 4..(3 + MaxUuid)}

\* what the import that just returned leaves for the next operation
LastOf ==
  IF imp.pc = "done"
  THEN [valid |-> TRUE, ar |-> imp.ar, mode |-> imp.mode,
        before |-> Cardinality(DOMAIN imp.pre.issues),
        issueCount |-> imp.issueCount,
        rooms |-> imp.pre.rooms, assignees |-> imp.pre.assignees]
  ELSE LastNone

(***************************************************************************)
(* db.ts                                                                   *)
(***************************************************************************)
\* variant: add instead of put: an id already in the store gets a new key
saveIssueAdd(store, issue) ==
  IF issue.id \in DOMAIN store
  THEN Put(store, [issue EXCEPT !.id = issue.id \o <<"-", "1">>])
  ELSE Put(store, issue)

\* saveIssue: store.put(issue)
saveIssue(store, issue) == Put(store, issue)

\* savePhoto: store.put(photo)
savePhoto(store, photo) == Put(store, photo)

\* variant: the transaction deletes the issue and forgets its photos
DeletedPhotoIdsNone(enumerated) == {}

\* the ids deleteIssue removes from the photo store: those it enumerated
DeletedPhotoIds(enumerated) == enumerated

\* deleteIssue, up to the resolution of getPhotosByIssue
DeleteStart(id) ==
  /\ id \in DOMAIN issues
  /\ now' = now + 1
  /\ del' = [pc |-> "tx", id |-> id,
             photoIds |-> {k \in DOMAIN photos : photos[k].issueId = id},
             pre |-> Snapshot]
  /\ imp' = ImpIdle
  /\ exp' = ExpIdle
  /\ last' = LastNone
  /\ UNCHANGED <<issues, photos, lsRooms, lsAssignees, usedUuids, ui>>

\* deleteIssue: the readwrite transaction over issues and photos
DeleteCommit ==
  /\ del.pc = "tx"
  /\ issues' = Remove(issues, {del.id})
  /\ photos' = Remove(photos, DeletedPhotoIds(del.photoIds))
  /\ del' = [del EXCEPT !.pc = "done"]
  /\ UNCHANGED <<lsRooms, lsAssignees, now, usedUuids, imp, exp, last, ui>>

(***************************************************************************)
(* importZip, one action per stretch between awaits                        *)
(***************************************************************************)
RECURSIVE UuidsNeeded(_, _)
UuidsNeeded(ar, n) ==
  IF n > Len(ar.entries) THEN 0
  ELSE LET e == ar.entries[n]
           need == {k \in 1..Len(e.photos) :
                      ~PhotoSkipped(ar, e.photos[k]) /\ NeedsUuid(e.photos[k])}
       IN (IF EntryValid(e) THEN Cardinality(need) ELSE 0) + UuidsNeeded(ar, n + 1)

\* loadAsync, report.json, JSON.parse and the check of `issues`
ImportStart(ar, mode, src) ==
  /\ Malformed(ar) \/ UuidsNeeded(ar, 1) <= Cardinality(UuidPool \ usedUuids)
  /\ now' = now + 1
  /\ imp' = [ImpIdle EXCEPT
               !.pc = IF Malformed(ar) THEN "failed"
                      ELSE IF ClearsFirst(mode) THEN "clear" ELSE "config",
               !.mode = mode, !.src = src, !.ar = ar, !.pre = Snapshot]
  /\ last' = LastOf
  /\ exp' = ExpIdle
  /\ del' = DelIdle
  /\ UNCHANGED <<issues, photos, lsRooms, lsAssignees, usedUuids, ui>>

\* await clearAllData(): every issue, photo and config entry is erased
clearAllData ==
  /\ issues' = EmptyStore
  /\ photos' = EmptyStore
  /\ lsRooms' = LsAbsent
  /\ lsAssignees' = LsAbsent

ImportClear ==
  /\ imp.pc = "clear"
  /\ clearAllData
  /\ imp' = [imp EXCEPT !.pc = "config", !.cleared = TRUE]
  /\ UNCHANGED <<now, usedUuids, exp, del, last, ui>>

\* the rooms and the assignees blocks: synchronous localStorage writes
ImportConfig ==
  /\ imp.pc = "config"
  /\ LET r == RestoreList(lsRooms, imp.ar.rooms, imp.mode)
         a == RestoreList(lsAssignees, imp.ar.assignees, imp.mode)
     IN /\ lsRooms' = r.entry
        /\ lsAssignees' = a.entry
        /\ imp' = [imp EXCEPT !.pc = "loop", !.roomCount = r.count,
                     !.assigneeCount = a.count,
                     !.wroteUncleared = (r.wrote \/ a.wrote) /\ ~imp.cleared]
  /\ UNCHANGED <<issues, photos, now, usedUuids, exp, del, last, ui>>

CurEntry == imp.ar.entries[imp.i]
InLoop == imp.pc = "loop" /\ imp.i <= Len(imp.ar.entries)

\* an entry without id, roomSlug or title: continue
ImportSkipIssue ==
  /\ InLoop
  /\ ~EntryValid(CurEntry)
  /\ imp' = [imp EXCEPT !.i = imp.i + 1]
  /\ UNCHANGED <<issues, photos, lsRooms, lsAssignees, now, usedUuids, exp, del, last, ui>>

\* one photo entry: skipped, or read from the archive and saved
ImportPhoto ==
  /\ InLoop
  /\ EntryValid(CurEntry)
  /\ imp.j <= Len(CurEntry.photos)
  /\ LET pd == CurEntry.photos[imp.j]
     IN IF PhotoSkipped(imp.ar, pd)
        THEN /\ imp' = [imp EXCEPT !.j = imp.j + 1]
             /\ UNCHANGED <<photos, usedUuids>>
        ELSE \E uuid \in (IF NeedsUuid(pd) THEN UuidPool \ usedUuids ELSE {"u1"}) :
               LET photoRef == PhotoRefOf(imp.ar, CurEntry, pd, uuid, Clock)
               IN /\ photos' = savePhoto(photos, photoRef)
                  /\ usedUuids' = IF NeedsUuid(pd) THEN usedUuids \cup {uuid}
                                  ELSE usedUuids
                  /\ imp' = [imp EXCEPT !.j = imp.j + 1,
                               !.photoIds = Append(imp.photoIds, photoRef.id),
                               !.photoCount = imp.photoCount + 1,
                               !.written = imp.written \cup {photoRef.id},
                               !.wroteUncleared = ~imp.cleared]
  /\ UNCHANGED <<issues, lsRooms, lsAssignees, now, exp, del, last, ui>>

\* await saveIssue(issue); issueCount++
ImportSaveIssue ==
  /\ InLoop
  /\ EntryValid(CurEntry)
  /\ imp.j > Len(CurEntry.photos)
  /\ issues' = saveIssue(issues, IssueOf(CurEntry, imp.photoIds, Clock))
  /\ imp' = [imp EXCEPT !.i = imp.i + 1, !.j = 1, !.photoIds = <<>>,
               !.issueCount = imp.issueCount + 1,
               !.wroteUncleared = ~imp.cleared]
  /\ UNCHANGED <<photos, lsRooms, lsAssignees, now, usedUuids, exp, del, last, ui>>

\* return { issueCount, photoCount, roomCount, assigneeCount }
ImportReturn ==
  /\ imp.pc = "loop"
  /\ imp.i > Len(imp.ar.entries)
  /\ imp' = [imp EXCEPT !.pc = "done"]
  /\ UNCHANGED <<issues, photos, lsRooms, lsAssignees, now, usedUuids, exp, del, last, ui>>


(***************************************************************************)
(* generateZipBlob, one action per stretch between awaits                  *)
(***************************************************************************)
CountStatus(list, st) == Cardinality({k \in 1..Len(list) : list[k].status = st})

\* the synchronous head of generateZipBlob: totals, grouping, room order
ExportStart(list, rooms, assignees) ==
  /\ now' = now + 1
  /\ exp' = [ExpIdle EXCEPT
               !.pc = "run", !.input = list, !.order = ExportOrder(list, rooms),
               !.rooms = rooms, !.assignees = assignees,
               !.total = Len(list), !.open = CountStatus(list, "open"),
               !.done = CountStatus(list, "done"),
               !.snapshot = /\ {list[k].id : k \in 1..Len(list)} = DOMAIN issues
                            /\ Len(list) = Cardinality(DOMAIN issues)]
  /\ imp' = ImpIdle
  /\ del' = DelIdle
  /\ last' = LastNone
  /\ UNCHANGED <<issues, photos, lsRooms, lsAssignees, usedUuids, ui>>

\* one issue: await getPhotosByIssue, the files, the manifest entry; the
\* catch block when the try block threw
ExportIssue ==
  /\ exp.pc = "run"
  /\ exp.k <= Len(exp.order)
  /\ LET issue == exp.order[exp.k]
         roomName == RoomNameOf(exp.rooms, issue.roomSlug)
         ps == getPhotosByIssue(photos, issue.id)
         r == ExportPhotos(issue.id, ps, 1,
                [used |-> exp.used, files |-> exp.files, writes |-> exp.writes,
                 details |-> <<>>, threw |-> FALSE])
         issueThrows == IsoThrows(issue.createdAt) \/ IsoThrows(issue.updatedAt)
     IN exp' = [exp EXCEPT
                  !.used = r.used, !.files = r.files, !.writes = r.writes,
                  !.k = exp.k + 1,
                  !.threw = exp.threw \cup (IF r.threw THEN {exp.k} ELSE {}),
                  !.pc = IF issueThrows THEN "failed" ELSE "run",
                  !.entries =
                     IF issueThrows THEN exp.entries
                     ELSE Append(exp.entries,
                            createIssueExportData(issue, roomName,
                               IF r.threw THEN <<>> ELSE r.details))]
  /\ UNCHANGED <<issues, photos, lsRooms, lsAssignees, now, usedUuids, imp, del, last, ui>>

\* one issue whose getPhotosByIssue rejects: the catch block lists the issue
\* without photos, and throws itself when a date of the issue is invalid
ExportIssueFailed ==
  /\ exp.pc = "run"
  /\ exp.k <= Len(exp.order)
  /\ LET issue == exp.order[exp.k]
         roomName == RoomNameOf(exp.rooms, issue.roomSlug)
         issueThrows == IsoThrows(issue.createdAt) \/ IsoThrows(issue.updatedAt)
     IN exp' = [exp EXCEPT
                  !.k = exp.k + 1,
                  !.threw = exp.threw \cup {exp.k},
                  !.pc = IF issueThrows THEN "failed" ELSE "run",
                  !.entries =
                     IF issueThrows THEN exp.entries
                     ELSE Append(exp.entries,
                            createIssueExportData(issue, roomName, <<>>))]
  /\ UNCHANGED <<issues, photos, lsRooms, lsAssignees, now, usedUuids, imp, del, last, ui>>

\* report.json is added and the archive generated
ExportFinish ==
  /\ exp.pc = "run"
  /\ exp.k > Len(exp.order)
  /\ exp' = [exp EXCEPT !.pc = "done"]
  /\ UNCHANGED <<issues, photos, lsRooms, lsAssignees, now, usedUuids, imp, del, last, ui>>

\* the archive a finished export hands to the download
ExportedArchive ==
  [kind |-> "ok", entries |-> exp.entries,
   rooms |-> [kind |-> "list", list |-> exp.rooms],
   assignees |-> [kind |-> "list", list |-> exp.assignees],
   files |-> exp.files, totalIssues |-> exp.total, openIssues |-> exp.open,
   doneIssues |-> exp.done]


(***************************************************************************)
(* Values the operations are exercised on                                  *)
(***************************************************************************)
IdA == <<"a">>
IdB == <<"a", "-", "1">>

MimeJpeg == <<"image", "/", "jpeg">>
MimePng == <<"image", "/", "PNG">>
MimeSvg == <<"image", "/", "svg+xml">>

Room1 == [slug |-> "r1", name |-> "Entree", letter |-> "Z"]
Room2 == [slug |-> "r2", name |-> "Garage", letter |-> UndefAtom]
Room3 == [slug |-> "r3", name |-> "WC RDC", letter |-> "K"]
Bob == [slug |-> "bob", name |-> "Bob", letter |-> UndefAtom]
Eve == [slug |-> "eve", name |-> "Eve", letter |-> UndefAtom]

\* a stored photo
Photo(id, issueId, mime, created) ==
  [id |-> id, issueId |-> issueId, mimeType |-> mime, width |-> 4, height |-> 3,
   createdAt |-> created, blob |-> <<"blob", id>>, thumbnailBlob |-> <<"thumb", id>>]

\* the stored issues, with the ids of their photos in `photos`
IssueA(photoIds) ==
  [id |-> IdA, code |-> "Z1", roomSlug |-> "r1", assigneeSlug |-> "bob",
   type |-> "todo", title |-> "Plinthe", description |-> "a recoller",
   status |-> "done", createdAt |-> 1, updatedAt |-> 2, photos |-> photoIds]

IssueB(photoIds) ==
  [id |-> IdB, code |-> UndefAtom, roomSlug |-> "r2", assigneeSlug |-> UndefAtom,
   type |-> "reserve", title |-> "Prise", description |-> "",
   status |-> "open", createdAt |-> 2, updatedAt |-> 2, photos |-> photoIds]

RECURSIVE PutAll(_, _)
PutAll(store, recs) ==
  IF recs = {} THEN store
  ELSE LET r == CHOOSE x \in recs : TRUE IN PutAll(Put(store, r), recs \ {r})

\* what an earlier session left in IndexedDB: issue a with the photos pa
\* (none of p1, p2 .. both), issue a-1 with the photos pb (p3 or none)
StoredData(hasA, pa, hasB, pb) ==
  [issues |-> PutAll(EmptyStore,
                 (IF hasA THEN {IssueA(SortedKeys(pa))} ELSE {})
                 \cup (IF hasB THEN {IssueB(SortedKeys(pb))} ELSE {})),
   photos |-> PutAll(EmptyStore,
                 {Photo(k, IdA, IF k = "p1" THEN MimeJpeg ELSE MimePng, 1) : k \in pa}
                 \cup {Photo(k, IdB, MimeJpeg, 2) : k \in pb})]

AChoices == {[has |-> FALSE, ps |-> {}]}
            \cup {[has |-> TRUE, ps |-> x] : x \in SUBSET {"p1", "p2"}}
BChoices == {[has |-> FALSE, ps |-> {}]}
            \cup {[has |-> TRUE, ps |-> x] : x \in SUBSET {"p3"}}

PersistedStores ==
  {StoredData(a.has, a.ps, b.has, b.ps) : a \in AChoices, b \in BChoices}

\* the files of an archive made outside the application
StdFiles ==
  [q \in {<<"img/", "x", ".", "jpg">>, <<"img/", "x", "-", "thumb", ".", "jpg">>,
          <<"img/", "y", ".", "JPG">>, <<"img/", "z", ".", "svg">>} |->
     <<"file", q[2], q[Len(q)], ToString(Len(q))>>]

\* photo entries of a manifest: structured and legacy
PhotoObj(path, id, thumb) ==
  [isString |-> FALSE, path |-> path, id |-> id, mimeType |-> MimeJpeg,
   width |-> 4, height |-> 3, thumbnailPath |-> thumb, createdAt |-> ToISOString(1)]

PhotoStr(path) ==
  [isString |-> TRUE, path |-> path, id |-> UndefAtom, mimeType |-> Undef,
   width |-> UndefNum, height |-> UndefNum, thumbnailPath |-> Undef,
   createdAt |-> DateAbsent]

PathX == <<"img/", "x", ".", "jpg">>
PathXThumb == <<"img/", "x", "-", "thumb", ".", "jpg">>
PathY == <<"img/", "y", ".", "JPG">>
PathSvg == <<"img/", "z", ".", "svg">>
PathGone == <<"img/", "gone", ".", "png">>
PathNoDot == <<"img/", "x">>

\* an issue entry of a manifest
Entry(id, roomSlug, title, status, type, photoEntries) ==
  [id |-> id, code |-> "", roomSlug |-> roomSlug, roomName |-> roomSlug,
   assigneeSlug |-> "", type |-> type, title |-> title, description |-> "",
   status |-> status, createdAt |-> ToISOString(1), updatedAt |-> DateAbsent,
   photoCount |-> Len(photoEntries), photos |-> photoEntries]

\* the sequences over S of length at most n
RECURSIVE SeqsUpTo(_, _)
SeqsUpTo(S, n) ==
  IF n = 0 THEN {<<>>}
  ELSE LET shorter == SeqsUpTo(S, n - 1)
       IN shorter \cup {Append(q, x) : q \in {r \in shorter : Len(r) = n - 1}, x \in S}

Field(list) == [kind |-> "list", list |-> list]

Archive(entries, rooms, assignees) ==
  [kind |-> "ok", entries |-> entries, rooms |-> rooms, assignees |-> assignees,
   files |-> StdFiles, totalIssues |-> Len(entries), openIssues |-> 0,
   doneIssues |-> 0]

Modes == {"replace", "merge"}

\* report.json missing; no `issues` field; `issues` that is no array
BadKinds == {"noreport", "noissues", "notalist"}


(***************************************************************************)
(* The application with one operation at a time: a persisted store, then   *)
(* an import of an archive, a second import of the same file, or a delete  *)
(***************************************************************************)
PhotoListsMain ==
  {<<>>, <<PhotoObj(PathX, "p1", PathXThumb)>>,
   <<PhotoObj(PathX, "p3", PathXThumb), PhotoStr(PathY)>>}

EntriesMain ==
  {Entry(id, "r1", "Fissure", "done", "todo", ps) :
     id \in {IdA, IdB, Undef}, ps \in PhotoListsMain}

OkArchivesMain ==
  {Archive(es, rf, NoField) :
     es \in SeqsUpTo(EntriesMain, MaxEntries),
     rf \in {NoField, Field(<<Room1, Room3>>)}}

BadArchivesMain ==
  {[Archive(<<e>>, Field(<<Room3>>), Field(<<Eve>>)) EXCEPT !.kind = k] :
     e \in EntriesMain, k \in BadKinds}

ArchivesMain == OkArchivesMain \cup BadArchivesMain

(***************************************************************************)
(* getRooms (db.ts)                                                        *)
(***************************************************************************)
RoomLaundryN == [slug |-> "r4", name |-> "Buanderie", letter |-> "N"]

\* the default rooms, in the order of the source: not the order of the names
DEFAULT_ROOMS == <<Room1, RoomLaundryN, Room3>>

\* a stored value JSON.parse rejects
LsUnparsable == [present |-> TRUE, list |-> <<>>, parses |-> FALSE]
Unparsable(entry) == "parses" \in DOMAIN entry

\* localeCompare(, 'fr') on the names of the rooms of the model
RoomNameOrder == <<"Buanderie", "Cave", "Entree", "Garage", "WC", "WC RDC">>
RoomNameRank(name) == CHOOSE k \in 1..Len(RoomNameOrder) : RoomNameOrder[k] = name

\* rooms.sort((a, b) => a.name.localeCompare(b.name, 'fr')): stable
RECURSIVE SortRooms(_)
SortRooms(list) ==
  IF list = <<>> THEN <<>>
  ELSE LET rest == SortRooms(SubSeq(list, 1, Len(list) - 1))
           x == list[Len(list)]
           before(y) == RoomNameRank(y.name) <= RoomNameRank(x.name)
           after(y) == ~before(y)
       IN SelectSeq(rest, before) \o <<x>> \o SelectSeq(rest, after)

\* getRooms(): the list returned and the entry stored when it returns
getRooms(entry) ==
  IF ~entry.present \/ Unparsable(entry)
  THEN [entry |-> LsList(DEFAULT_ROOMS), rooms |-> DEFAULT_ROOMS]
  ELSE [entry |-> entry, rooms |-> SortRooms(entry.list)]

InitWith(stores, roomLists, assigneeLists) ==
  /\ \E st \in stores : issues = st.issues /\ photos = st.photos
  /\ lsRooms \in roomLists
  /\ lsAssignees \in assigneeLists
  /\ now = 0
  /\ usedUuids = {}
  /\ imp = ImpIdle
  /\ exp = ExpIdle
  /\ del = DelIdle
  /\ last = LastNone
  /\ ui = [UiIdle EXCEPT !.assignees = getAssignees(lsAssignees),
                       !.rooms = getRooms(lsRooms).rooms]

Init == InitWith(PersistedStores, {LsList(<<Room1, Room2>>)}, {LsList(<<Bob>>)})

\* the user picks a file and a mode
ImportFile ==
  /\ Idle
  /\ now = 0
  /\ \E ar \in ArchivesMain, mode \in Modes : ImportStart(ar, mode, "external")

\* the user imports the file of the import that just finished once more
ImportAgain ==
  /\ imp.pc = "done"
  /\ imp.src = "external"
  /\ ImportStart(imp.ar, imp.mode, "again")

DeleteOne ==
  /\ Idle
  /\ now = 0
  /\ \E id \in DOMAIN issues : DeleteStart(id)

Next ==
  \/ ImportFile
  \/ ImportAgain
  \/ ImportClear
  \/ ImportConfig
  \/ ImportSkipIssue
  \/ ImportPhoto
  \/ ImportSaveIssue
  \/ ImportReturn
  \/ DeleteOne
  \/ DeleteCommit

Spec == Init /\ [][Next]_vars


(***************************************************************************)
(* Claims checked under Spec                                               *)
(***************************************************************************)
IssueCount == Cardinality(DOMAIN issues)

PhotoIdsOf(store, issueId) == {k \in DOMAIN store : store[k].issueId = issueId}

\* C2: cascade delete - when deleteIssue(id) has completed, the store holds
\* no issue with that id and no photo whose issueId is that id, and the
\* issues and the photos of the other issue ids are what they were
CascadeDelete ==
  del.pc = "done" =>
    /\ del.id \notin DOMAIN issues
    /\ getPhotosByIssue(photos, del.id) = <<>>
    /\ DOMAIN issues = (DOMAIN del.pre.issues) \ {del.id}
    /\ \A k \in DOMAIN issues : issues[k] = del.pre.issues[k]
    /\ DOMAIN photos = (DOMAIN del.pre.photos) \ PhotoIdsOf(del.pre.photos, del.id)
    /\ \A k \in DOMAIN photos : photos[k] = del.pre.photos[k]

\* an issue with two photos was deleted beside an issue that keeps its photo
CascadeDeleteWitness ==
  /\ del.pc = "done"
  /\ Cardinality(PhotoIdsOf(del.pre.photos, del.id)) = 2
  /\ \E k \in DOMAIN photos : photos[k].issueId # del.id
  /\ issues # EmptyStore

StoreUnchangedSince(pre) ==
  /\ issues = pre.issues
  /\ photos = pre.photos
  /\ lsRooms = pre.rooms
  /\ lsAssignees = pre.assignees

\* C3: an archive without report.json, without `issues`, or whose `issues`
\* is not a list makes importZip fail, and issues, photos, rooms and
\* assignees are what they were before the call, in both modes
MalformedWritesNothing ==
  (imp.pc # "idle" /\ imp.ar.kind \in BadKinds) =>
    /\ imp.pc = "failed"
    /\ StoreUnchangedSince(imp.pre)

\* a replace import of a malformed archive failed over a store with data
MalformedWitness ==
  /\ imp.pc = "failed"
  /\ imp.mode = "replace"
  /\ imp.ar.kind = "notalist"
  /\ Cardinality(DOMAIN issues) = 2
  /\ photos # EmptyStore

\* the ids of the entries processed so far that have id, roomSlug and title
ProcessedIds ==
  {imp.ar.entries[k].id : k \in {n \in 1..Len(imp.ar.entries) :
       /\ n <= imp.i
       /\ imp.ar.entries[n].id \notin {Undef, <<>>}
       /\ imp.ar.entries[n].roomSlug \notin {UndefAtom, ""}
       /\ imp.ar.entries[n].title \notin {UndefAtom, ""}}}

\* C4: in a replace import nothing of the archive is written before
\* clearAllData has completed, and from then on every issue and every photo
\* in the store is one the archive wrote
ReplaceClearsFirst ==
  (imp.mode = "replace" /\ imp.pc \in {"config", "loop", "done"}) =>
    /\ imp.cleared
    /\ ~imp.wroteUncleared
    /\ DOMAIN issues \subseteq ProcessedIds
    /\ DOMAIN photos \subseteq imp.written
    /\ \A k \in DOMAIN photos : photos[k].blob \in {imp.ar.files[q] : q \in DOMAIN imp.ar.files}

\* a replace import finished over a store that held other issues and photos
ReplaceWitness ==
  /\ imp.pc = "done"
  /\ imp.mode = "replace"
  /\ imp.src = "external"
  /\ IdA \in DOMAIN imp.pre.issues
  /\ "p2" \in DOMAIN imp.pre.photos
  /\ DOMAIN issues = {IdB}
  /\ DOMAIN photos = {"p1"}

\* C5: merge non-destructive - during and after a merge import every issue
\* id that was in the store is still there, so the number of issues is not
\* below the number before the import
MergeKeepsIssues ==
  (imp.mode = "merge" /\ imp.pc # "idle") =>
    /\ DOMAIN imp.pre.issues \subseteq DOMAIN issues
    /\ IssueCount >= Cardinality(DOMAIN imp.pre.issues)

\* a merge import finished that overwrote an issue and added another
MergeWitness ==
  /\ imp.pc = "done"
  /\ imp.mode = "merge"
  /\ imp.src = "external"
  /\ DOMAIN imp.pre.issues = {IdA}
  /\ DOMAIN issues = {IdA, IdB}
  /\ issues[IdA] # imp.pre.issues[IdA]

SecondMergeDone ==
  /\ imp.pc = "done"
  /\ imp.src = "again"
  /\ imp.mode = "merge"
  /\ last.valid

\* C6 as claimed: after the same archive is imported twice in merge mode
\* into an empty store, the store holds as many issues as the two imports
\* report together
ReimportAddsAgain ==
  (SecondMergeDone /\ last.before = 0) =>
    IssueCount = last.issueCount + imp.issueCount

\* C6 as amended: the second merge import of the same archive reports the
\* issueCount of the first and leaves the set of issue ids, hence the
\* number of issues in the store, as the first import left it
ReimportKeepsCount ==
  SecondMergeDone =>
    /\ imp.issueCount = last.issueCount
    /\ DOMAIN issues = DOMAIN imp.pre.issues
    /\ IssueCount = Cardinality(DOMAIN imp.pre.issues)

\* the same archive with two issues was merged twice into an empty store
ReimportWitness ==
  /\ SecondMergeDone
  /\ last.before = 0
  /\ imp.issueCount = 2
  /\ IssueCount = 2


(***************************************************************************)
(* SpecEntries: one import of an archive whose issue entries have, or      *)
(* lack, id, roomSlug and title                                            *)
(***************************************************************************)
\* id, roomSlug and title of an entry: present, empty or missing
EntryCores ==
  {[id |-> id, roomSlug |-> roomSlug, title |-> title] :
     id \in {IdA, IdB, <<>>, Undef}, roomSlug \in {"r1", "", UndefAtom},
     title \in {"Fissure", "", UndefAtom}}

\* the n-th entry of the archive carries one photo, whose id is the n-th key
EntriesFrom(cores) ==
  [n \in 1..Len(cores) |->
     Entry(cores[n].id, cores[n].roomSlug, cores[n].title, "open", "reserve",
           <<PhotoObj(PathX, PhotoKeyOrder[n], PathXThumb)>>)]

ArchivesEntries ==
  {Archive(EntriesFrom(cores), NoField, NoField) :
     cores \in SeqsUpTo(EntryCores, MaxEntries)}

InitEntries ==
  InitWith({StoredData(TRUE, {"p1"}, FALSE, {})},
           {LsList(<<Room1, Room2>>)}, {LsList(<<Bob>>)})

ImportEntries ==
  /\ Idle
  /\ now = 0
  /\ \E ar \in ArchivesEntries, mode \in Modes : ImportStart(ar, mode, "external")

NextEntries ==
  \/ ImportEntries
  \/ ImportClear
  \/ ImportConfig
  \/ ImportSkipIssue
  \/ ImportPhoto
  \/ ImportSaveIssue
  \/ ImportReturn

SpecEntries == InitEntries /\ [][NextEntries]_vars

\* an entry whose id, roomSlug or title is missing or empty
Incomplete(e) ==
  \/ e.id \in {Undef, <<>>}
  \/ e.roomSlug \in {UndefAtom, ""}
  \/ e.title \in {UndefAtom, ""}

CompleteAt == {n \in 1..Len(imp.ar.entries) : ~Incomplete(imp.ar.entries[n])}
CompleteIds == {imp.ar.entries[n].id : n \in CompleteAt}
CompletePhotoIds == {PhotoKeyOrder[n] : n \in CompleteAt}

\* the position of the last complete entry with the id
LastEntryOf(id) == MaxOf({n \in CompleteAt : imp.ar.entries[n].id = id})

\* C10: an issue entry whose id, roomSlug or title is missing or empty is
\* skipped - it is not counted, no issue and no photo is written for it -
\* and every complete entry of the archive is imported
IncompleteEntrySkipped ==
  (imp.pc = "done" /\ imp.src = "external") =>
    LET old == IF imp.mode = "merge" THEN imp.pre ELSE NoSnapshot
    IN /\ imp.issueCount = Cardinality(CompleteAt)
       /\ imp.photoCount = Cardinality(CompleteAt)
       /\ DOMAIN issues = (DOMAIN old.issues) \cup CompleteIds
       /\ \A id \in CompleteIds :
            /\ issues[id].title = imp.ar.entries[LastEntryOf(id)].title
            /\ issues[id].roomSlug = imp.ar.entries[LastEntryOf(id)].roomSlug
            /\ issues[id].photos = <<PhotoKeyOrder[LastEntryOf(id)]>>
       /\ \A id \in (DOMAIN old.issues) \ CompleteIds : issues[id] = old.issues[id]
       /\ imp.written = CompletePhotoIds
       /\ DOMAIN photos = (DOMAIN old.photos) \cup CompletePhotoIds
       /\ \A k \in (DOMAIN old.photos) \ CompletePhotoIds : photos[k] = old.photos[k]

\* a replace import finished that skipped an entry without title (carrying
\* photo p1) and imported the entry after it (carrying photo p2)
IncompleteWitness ==
  /\ imp.pc = "done"
  /\ imp.src = "external"
  /\ imp.mode = "replace"
  /\ Len(imp.ar.entries) = 2
  /\ imp.ar.entries[1].title = UndefAtom
  /\ imp.ar.entries[1].id = IdA
  /\ imp.ar.entries[1].roomSlug = "r1"
  /\ imp.ar.entries[2].id = IdB
  /\ imp.issueCount = 1
  /\ DOMAIN issues = {IdB}
  /\ DOMAIN photos = {"p2"}


(***************************************************************************)
(* SpecPhotos: one import of an archive whose photo entries are structured *)
(* or legacy, with allowed and disallowed extensions, present and missing  *)
(* files                                                                   *)
(***************************************************************************)
PhotoEntriesAny ==
  {PhotoObj(PathX, "p1", PathXThumb), PhotoObj(PathY, "p3", Undef),
   PhotoStr(PathY),
   PhotoObj(PathSvg, "p2", PathXThumb), PhotoStr(PathSvg),
   PhotoObj(PathGone, "p2", PathXThumb), PhotoObj(PathNoDot, "p2", Undef)}

EntryOfA(ps) == Entry(IdA, "r1", "Fissure", "open", "reserve", ps)
EntryOfB == Entry(IdB, "r2", "Prise", "done", "todo", <<PhotoObj(PathX, "p1", PathXThumb)>>)

ArchivesPhotos ==
  UNION {{Archive(<<EntryOfA(ps)>>, NoField, NoField),
          Archive(<<EntryOfA(ps), EntryOfB>>, NoField, NoField),
          Archive(<<EntryOfB, EntryOfA(ps)>>, NoField, NoField)} :
            ps \in SeqsUpTo(PhotoEntriesAny, MaxPhotoEntries)}

InitPhotos ==
  InitWith({StoredData(FALSE, {}, FALSE, {}), StoredData(FALSE, {}, TRUE, {"p3"})},
           {LsList(<<Room1, Room2>>)}, {LsList(<<Bob>>)})

ImportPhotos ==
  /\ Idle
  /\ now = 0
  /\ \E ar \in ArchivesPhotos, mode \in Modes : ImportStart(ar, mode, "external")

NextPhotos ==
  \/ ImportPhotos
  \/ ImportClear
  \/ ImportConfig
  \/ ImportPhoto
  \/ ImportSaveIssue
  \/ ImportReturn

SpecPhotos == InitPhotos /\ [][NextPhotos]_vars

AllowedExtensions == {"jpg", "jpeg", "png", "gif", "webp"}

\* the path ends in a '.' and an extension of the allow-list, in any case
HasAllowedExtension(path) ==
  /\ Len(path) >= 2
  /\ path[Len(path) - 1] = "."
  /\ LowerTok(path[Len(path)]) \in AllowedExtensions

\* a photo entry with a disallowed extension or whose path names no file
BadPhotoEntry(pd) ==
  \/ ~HasAllowedExtension(pd.path)
  \/ pd.path \notin DOMAIN imp.ar.files

GoodPhotoEntry(pd) == ~BadPhotoEntry(pd)

GoodEntriesOf(n) == SelectSeq(imp.ar.entries[n].photos, GoodPhotoEntry)

GoodPairs ==
  {<<n, k>> \in (1..Len(imp.ar.entries)) \X (1..(MaxPhotoEntries + 1)) :
     /\ k <= Len(imp.ar.entries[n].photos)
     /\ GoodPhotoEntry(imp.ar.entries[n].photos[k])}

GoodObjectIds ==
  {imp.ar.entries[p[1]].photos[p[2]].id :
     p \in {q \in GoodPairs : ~imp.ar.entries[q[1]].photos[q[2]].isString}}

\* C9: a photo entry with a disallowed extension, or whose path names no
\* file of the archive, is skipped - no record is written for it, its id is
\* not in the photos list of its issue, it is not counted - and its issue
\* and the other entries are imported
BadPhotoSkipped ==
  (imp.pc = "done" /\ imp.src = "external") =>
    /\ imp.photoCount = Cardinality(GoodPairs)
    /\ imp.issueCount = Len(imp.ar.entries)
    /\ imp.written \cap {"p1", "p2", "p3"} = GoodObjectIds
    /\ Cardinality(imp.written \ {"p1", "p2", "p3"})
         = Cardinality(GoodPairs) - Cardinality({q \in GoodPairs :
               ~imp.ar.entries[q[1]].photos[q[2]].isString})
    /\ \A id \in {"p1", "p2", "p3"} \ GoodObjectIds :
         id \in DOMAIN photos =>
           id \in DOMAIN imp.pre.photos /\ photos[id] = imp.pre.photos[id]
    /\ \A n \in 1..Len(imp.ar.entries) :
         LET e == imp.ar.entries[n]
             good == GoodEntriesOf(n)
         IN /\ e.id \in DOMAIN issues
            /\ Len(issues[e.id].photos) = Len(good)
            /\ \A k \in 1..Len(good) :
                 /\ good[k].isString => issues[e.id].photos[k] \in UuidPool
                 /\ ~good[k].isString => issues[e.id].photos[k] = good[k].id
                 /\ issues[e.id].photos[k] \in DOMAIN photos
                 /\ photos[issues[e.id].photos[k]].blob = imp.ar.files[good[k].path]

\* an import finished whose first issue has an .svg entry (id p2) before a
\* legacy .JPG entry, followed by a second issue
BadPhotoWitness ==
  /\ imp.pc = "done"
  /\ imp.src = "external"
  /\ Len(imp.ar.entries) = 2
  /\ imp.ar.entries[1].photos = <<PhotoObj(PathSvg, "p2", PathXThumb), PhotoStr(PathY)>>
  /\ imp.photoCount = 2
  /\ DOMAIN issues = {IdA, IdB}
  /\ "p2" \notin DOMAIN photos
  /\ Len(issues[IdA].photos) = 1

\* an import finished that skipped an entry whose file is not in the archive
MissingFileWitness ==
  /\ imp.pc = "done"
  /\ imp.ar.entries[1].photos = <<PhotoObj(PathGone, "p2", PathXThumb)>>
  /\ imp.photoCount = 0
  /\ IdA \in DOMAIN issues
  /\ issues[IdA].photos = <<>>


(***************************************************************************)
(* SpecRooms: one import of an archive without issues whose rooms and      *)
(* assignees lists repeat slugs, name stored slugs and hold invalid        *)
(* entries                                                                 *)
(***************************************************************************)
Room3Again == [slug |-> "r3", name |-> "WC", letter |-> UndefAtom]
RoomNoSlug == [slug |-> "", name |-> "Cave", letter |-> UndefAtom]
EveAgain == [slug |-> "eve", name |-> "Eve M.", letter |-> UndefAtom]

RoomEntries == {Room1, Room3, Room3Again, RoomNoSlug}
AssigneeEntries == {Bob, Eve, EveAgain}

FieldsOf(S) ==
  {NoField, [kind |-> "notalist", list |-> <<>>]}
    \cup {Field(l) : l \in SeqsUpTo(S, MaxRoomEntries)}

ArchivesRooms ==
  {Archive(<<>>, r, a) : r \in FieldsOf(RoomEntries), a \in FieldsOf(AssigneeEntries)}

InitRooms ==
  InitWith({StoredData(FALSE, {}, FALSE, {})},
           {LsAbsent, LsList(<<Room1, Room2>>)}, {LsAbsent, LsList(<<Bob>>)})

ImportRooms ==
  /\ Idle
  /\ now = 0
  /\ \E ar \in ArchivesRooms, mode \in Modes : ImportStart(ar, mode, "external")

NextRooms ==
  \/ ImportRooms
  \/ ImportClear
  \/ ImportConfig
  \/ ImportReturn

SpecRooms == InitRooms /\ [][NextRooms]_vars

TimesIn(list, slug) == Cardinality({k \in 1..Len(list) : list[k].slug = slug})

FieldSlugs(field) == IF field.kind = "list" THEN SlugsOf(field.list) ELSE {}

MergeDeduplicated(old, new, field) ==
  /\ \A s \in SlugsOf(new) \ SlugsOf(old) : TimesIn(new, s) <= 1
  /\ Len(new) <= Cardinality(SlugsOf(old) \cup FieldSlugs(field))

\* C7: after a merge import the rooms list and the assignees list hold at
\* most one entry per slug that was not stored before, and neither is longer
\* than the number of distinct slugs of the old list and the archive list
MergeDedupes ==
  (imp.pc = "done" /\ imp.src = "external" /\ imp.mode = "merge") =>
    /\ MergeDeduplicated(LsRead(imp.pre.rooms), LsRead(lsRooms), imp.ar.rooms)
    /\ MergeDeduplicated(LsRead(imp.pre.assignees), LsRead(lsAssignees),
                         imp.ar.assignees)

\* what the code does keep: a slug stored before the import is never appended
\* again, and the stored entries stay in place at the head of the list
MergeKeepsStoredSlugs ==
  (imp.pc = "done" /\ imp.src = "external" /\ imp.mode = "merge") =>
    LET old == LsRead(imp.pre.rooms)
        new == LsRead(lsRooms)
    IN /\ Len(new) >= Len(old)
       /\ SubSeq(new, 1, Len(old)) = old
       /\ \A s \in SlugsOf(old) : TimesIn(new, s) = TimesIn(old, s)
       /\ imp.roomCount = Len(new) - Len(old)


(***************************************************************************)
(* SpecExport: one export of any list of stored issues, the same issue     *)
(* several times included, for ids a, a-1 and a-1-thumb                    *)
(***************************************************************************)
IdC == <<"a", "-", "1", "-", "thumb">>

IssueC(photoIds) ==
  [id |-> IdC, code |-> "K2", roomSlug |-> "r3", assigneeSlug |-> "eve",
   type |-> "reserve", title |-> "Joint", description |-> "",
   status |-> "open", createdAt |-> 3, updatedAt |-> 3, photos |-> photoIds]

StoreABC ==
  [issues |-> PutAll(EmptyStore, {IssueA(<<"p1">>), IssueB(<<"p3">>), IssueC(<<"u1">>)}),
   photos |-> PutAll(EmptyStore, {Photo("p1", IdA, MimeJpeg, 1),
                                  Photo("p3", IdB, MimeJpeg, 2),
                                  Photo("u1", IdC, MimeJpeg, 3)})]

InitExport ==
  InitWith(PersistedStores \cup {StoreABC},
           {LsAbsent, LsList(<<Room1, Room2, Room3>>)}, {LsList(<<Bob>>)})

StoredIssues == {issues[id] : id \in DOMAIN issues}

ExportAny ==
  /\ Idle
  /\ now = 0
  /\ \E list \in SeqsUpTo(StoredIssues, MaxExportLen) :
       ExportStart(list, LsRead(lsRooms), LsRead(lsAssignees))

NextExport ==
  \/ ExportAny
  \/ ExportIssue
  \/ ExportFinish

SpecExport == InitExport /\ [][NextExport]_vars

\* the photo entries of the manifest built so far, issue after issue
RECURSIVE ManifestPhotos(_)
ManifestPhotos(entries) ==
  IF entries = <<>> THEN <<>>
  ELSE ManifestPhotos(SubSeq(entries, 1, Len(entries) - 1))
         \o entries[Len(entries)].photos

RECURSIVE ManifestPaths(_)
ManifestPaths(details) ==
  IF details = <<>> THEN <<>>
  ELSE <<Head(details).path, Head(details).thumbnailPath>>
         \o ManifestPaths(Tail(details))

NoRepeat(q) == Cardinality({q[k] : k \in 1..Len(q)}) = Len(q)

\* C8: within one export all path and thumbnailPath values of the manifest
\* are pairwise distinct, each names a file written to the img folder that
\* holds the bytes of its photo, and no file is written twice
CollisionSafety ==
  (exp.pc \in {"run", "done"}) =>
    LET details == ManifestPhotos(exp.entries)
    IN /\ NoRepeat(ManifestPaths(details))
       /\ NoRepeat(exp.writes)
       /\ \A k \in 1..Len(details) :
            /\ details[k].path \in DOMAIN exp.files
            /\ details[k].thumbnailPath \in DOMAIN exp.files
            /\ exp.files[details[k].path] = photos[details[k].id].blob
            /\ exp.files[details[k].thumbnailPath] = photos[details[k].id].thumbnailBlob

\* an export finished in which the thumbnail of a photo found both
\* a-1-thumb.jpeg and a-1-thumb-1.jpeg taken and was written as
\* a-1-thumb-2.jpeg
CollisionWitness ==
  /\ exp.pc = "done"
  /\ Len(exp.entries) = 3
  /\ <<"img/", "a", "-", "1", "-", "thumb", "-", "2", ".", "jpeg">> \in DOMAIN exp.files
  /\ <<"img/", "a", "-", "1", "-", "thumb", "-", "1", ".", "jpeg">> \in DOMAIN exp.files
  /\ Len(exp.writes) = 6


(***************************************************************************)
(* SpecRT: the store of an earlier session, possibly after one import of   *)
(* an archive made outside the application, is exported as a whole and the *)
(* exported archive is imported                                            *)
(***************************************************************************)
PhotoDated(id, d) == [PhotoObj(PathX, id, PathXThumb) EXCEPT !.createdAt = d]

EntryDated(id, d, ps) ==
  [Entry(id, "r1", "Fissure", "open", "reserve", ps) EXCEPT !.createdAt = d]

ManifestDates == {ToISOString(5), DateGarbage}

ArchivesRT ==
  {Archive(<<EntryDated(IdA, di, <<PhotoDated("p2", dp)>>)>>, NoField, NoField) :
     di \in ManifestDates, dp \in ManifestDates}

InitRT == InitWith(PersistedStores, {LsList(<<Room1, Room2>>)}, {LsList(<<Bob>>)})

\* the archive of somebody else is imported first
ImportOutside ==
  /\ Idle
  /\ now = 0
  /\ \E ar \in ArchivesRT, mode \in Modes : ImportStart(ar, mode, "external")

\* handleExportZip: every stored issue, in some order of getAllIssues
ExportSnapshot ==
  /\ Idle
  /\ exp.pc = "idle"
  /\ imp.src # "exported"
  /\ \E list \in SeqsUpTo(StoredIssues, Cardinality(StoredIssues)) :
       /\ Len(list) = Cardinality(StoredIssues)
       /\ NoRepeat(list)
       /\ ExportStart(list, LsRead(lsRooms), LsRead(lsAssignees))

\* the archive just exported is imported
ImportExported ==
  /\ Idle
  /\ exp.pc = "done"
  /\ exp.snapshot
  /\ \E mode \in Modes : ImportStart(ExportedArchive, mode, "exported")

NextRT ==
  \/ ImportOutside
  \/ ExportSnapshot
  \/ ExportIssue
  \/ ExportFinish
  \/ ImportExported
  \/ ImportClear
  \/ ImportConfig
  \/ ImportPhoto
  \/ ImportSaveIssue
  \/ ImportReturn

SpecRT == InitRT /\ [][NextRT]_vars

OwnedBy(store, issueId) == {k \in DOMAIN store : store[k].issueId = issueId}

SameIssueFields(x, y) ==
  /\ x.code = y.code
  /\ x.roomSlug = y.roomSlug
  /\ x.assigneeSlug = y.assigneeSlug
  /\ x.type = y.type
  /\ x.title = y.title
  /\ x.description = y.description
  /\ x.status = y.status
  /\ x.createdAt = y.createdAt
  /\ x.updatedAt = y.updatedAt

SamePhoto(x, y) ==
  /\ x.id = y.id
  /\ x.issueId = y.issueId
  /\ x.mimeType = y.mimeType
  /\ x.width = y.width
  /\ x.height = y.height
  /\ x.blob = y.blob
  /\ x.thumbnailBlob = y.thumbnailBlob

\* the store holds the issues and the photos of the snapshot `pre`
Restored(pre) ==
  /\ DOMAIN issues = DOMAIN pre.issues
  /\ \A id \in DOMAIN pre.issues :
       /\ SameIssueFields(issues[id], pre.issues[id])
       /\ Cardinality(OwnedBy(photos, id)) = Cardinality(OwnedBy(pre.photos, id))
  /\ \A k \in DOMAIN pre.photos :
       pre.photos[k].issueId \in DOMAIN pre.issues =>
         k \in DOMAIN photos /\ SamePhoto(photos[k], pre.photos[k])

RoundTripDone == imp.pc = "done" /\ imp.src = "exported" /\ imp.mode = "replace"

\* C1: importing in replace mode the archive exported from the whole store
\* leaves the same issue ids, the same field values per issue, the same
\* number of photos per issue and the same photo records
RoundTrip == RoundTripDone => Restored(imp.pre)

\* the round trip does restore every store whose photos all carry a finite
\* createdAt
RoundTripOfDatedPhotos ==
  (RoundTripDone /\ \A k \in DOMAIN imp.pre.photos : imp.pre.photos[k].createdAt # NaN)
    => Restored(imp.pre)


(***************************************************************************)
(* SpecNorm: one import of an archive whose entries carry any status and   *)
(* any type: exact, differently cased, other, empty, absent                *)
(***************************************************************************)
StatusValues == {"done", "Done", "open", "", UndefAtom}
TypeValues == {"todo", "TODO", "reserve", "", UndefAtom}

StatusTypes == {[status |-> st, type |-> ty] : st \in StatusValues, ty \in TypeValues}

\* entries with ids a, a-1, a, ..
NormEntries(sts) ==
  [n \in 1..Len(sts) |->
     Entry(IF n % 2 = 1 THEN IdA ELSE IdB, "r1", "Fissure", sts[n].status,
           sts[n].type, <<>>)]

ArchivesNorm ==
  {Archive(NormEntries(sts), NoField, NoField) :
     sts \in SeqsUpTo(StatusTypes, MaxEntries)}

InitNorm ==
  InitWith({StoredData(FALSE, {}, FALSE, {}), StoredData(TRUE, {}, FALSE, {})},
           {LsList(<<Room1, Room2>>)}, {LsList(<<Bob>>)})

ImportNorm ==
  /\ Idle
  /\ now = 0
  /\ \E ar \in ArchivesNorm, mode \in Modes : ImportStart(ar, mode, "external")

NextNorm ==
  \/ ImportNorm
  \/ ImportClear
  \/ ImportConfig
  \/ ImportSaveIssue
  \/ ImportReturn

SpecNorm == InitNorm /\ [][NextNorm]_vars

\* the entries the import has gone past, each the last one of its id so far
WrittenEntries ==
  {n \in 1..Len(imp.ar.entries) :
     /\ n < imp.i
     /\ ~Incomplete(imp.ar.entries[n])
     /\ \A m \in (n + 1)..(imp.i - 1) : imp.ar.entries[m].id # imp.ar.entries[n].id}

\* C11: an issue written by importZip has status done exactly when the
\* status of its entry is the string "done" and open otherwise, and type
\* todo exactly when the type of its entry is the string "todo" and reserve
\* otherwise
StatusTypeNormalized ==
  (imp.pc \in {"loop", "done"} /\ imp.src = "external") =>
    \A n \in WrittenEntries :
      LET e == imp.ar.entries[n]
      IN /\ e.id \in DOMAIN issues
         /\ issues[e.id].status \in {"done", "open"}
         /\ issues[e.id].status = "done" <=> e.status = "done"
         /\ issues[e.id].type \in {"todo", "reserve"}
         /\ issues[e.id].type = "todo" <=> e.type = "todo"

\* a merge import finished that wrote issue a, done and todo before, from
\* an entry with status "Done" and without type, and issue a-1 from an
\* entry with status "done" and type "TODO"
StatusTypeWitness ==
  /\ imp.pc = "done"
  /\ imp.src = "external"
  /\ imp.mode = "merge"
  /\ IdA \in DOMAIN imp.pre.issues
  /\ imp.pre.issues[IdA].status = "done"
  /\ Len(imp.ar.entries) = 2
  /\ imp.ar.entries[1].status = "Done"
  /\ imp.ar.entries[1].type = UndefAtom
  /\ imp.ar.entries[2].status = "done"
  /\ imp.ar.entries[2].type = "TODO"
  /\ issues[IdA].status = "open"
  /\ issues[IdA].type = "reserve"
  /\ issues[IdB].status = "done"
  /\ issues[IdB].type = "reserve"


(***************************************************************************)
(* SpecLegacy: one import of an archive in the first format: no assignees, *)
(* no code, no type, photo entries that are bare paths                     *)
(***************************************************************************)
LegacyPhotos == {PhotoStr(PathX), PhotoStr(PathY), PhotoStr(PathXThumb)}

LegacyEntry(id, status, ps) ==
  [Entry(id, "r1", "Fissure", status, UndefAtom, ps) EXCEPT
     !.code = UndefAtom, !.assigneeSlug = UndefAtom]

ArchivesLegacy ==
  UNION {{Archive(<<LegacyEntry(IdA, "done", ps)>>, Field(<<Room1, Room3>>), NoField),
          Archive(<<LegacyEntry(IdA, "open", ps), LegacyEntry(IdB, "done", qs)>>,
                  Field(<<Room1, Room3>>), NoField)} :
            ps \in SeqsUpTo(LegacyPhotos, MaxPhotoEntries),
            qs \in SeqsUpTo(LegacyPhotos, 1)}

InitLegacy ==
  InitWith({StoredData(FALSE, {}, FALSE, {}), StoredData(TRUE, {"p1"}, FALSE, {})},
           {LsList(<<Room1, Room2>>)}, {LsAbsent, LsList(<<Bob>>)})

ImportLegacy ==
  /\ Idle
  /\ now = 0
  /\ \E ar \in ArchivesLegacy, mode \in Modes : ImportStart(ar, mode, "external")

NextLegacy ==
  \/ ImportLegacy
  \/ ImportClear
  \/ ImportConfig
  \/ ImportPhoto
  \/ ImportSaveIssue
  \/ ImportReturn

SpecLegacy == InitLegacy /\ [][NextLegacy]_vars

LegacyDone ==
  /\ imp.pc = "done"
  /\ imp.src = "external"
  /\ \A n \in 1..Len(imp.ar.entries) :
       /\ imp.ar.entries[n].type = UndefAtom
       /\ \A k \in 1..Len(imp.ar.entries[n].photos) : imp.ar.entries[n].photos[k].isString

\* the ids of all photos listed by the imported issues, issue after issue
RECURSIVE ListedPhotoIds(_)
ListedPhotoIds(n) ==
  IF n = 0 THEN <<>>
  ELSE ListedPhotoIds(n - 1) \o issues[imp.ar.entries[n].id].photos

\* every entry became an issue of type reserve, every bare path a photo with
\* a new id, width 0, height 0, the time of the import and the full image
\* as thumbnail
LegacyImported ==
  /\ imp.issueCount = Len(imp.ar.entries)
  /\ \A n \in 1..Len(imp.ar.entries) :
       LET e == imp.ar.entries[n]
       IN /\ e.id \in DOMAIN issues
          /\ issues[e.id].type = "reserve"
          /\ issues[e.id].status = e.status
          /\ issues[e.id].code = UndefAtom
          /\ issues[e.id].assigneeSlug = UndefAtom
          /\ Len(issues[e.id].photos) = Len(e.photos)
          /\ \A k \in 1..Len(e.photos) :
               LET id == issues[e.id].photos[k]
               IN /\ id \notin DOMAIN imp.pre.photos
                  /\ id \in DOMAIN photos
                  /\ photos[id].id = id
                  /\ photos[id].issueId = e.id
                  /\ photos[id].width = 0
                  /\ photos[id].height = 0
                  /\ photos[id].createdAt = Clock
                  /\ photos[id].blob = imp.ar.files[e.photos[k].path]
                  /\ photos[id].thumbnailBlob = photos[id].blob
  /\ NoRepeat(ListedPhotoIds(Len(imp.ar.entries)))
  /\ imp.photoCount = Len(ListedPhotoIds(Len(imp.ar.entries)))

\* C12 as stated: a first-format archive imports, with the defaults above,
\* and the assignees list is left untouched
LegacyTolerance ==
  LegacyDone => LegacyImported /\ lsAssignees = imp.pre.assignees

\* C12 amended: a first-format archive imports, with the defaults above; the
\* import writes no assignees list, so in merge mode the list is untouched
\* and in replace mode it stays erased
LegacyToleranceByMode ==
  LegacyDone =>
    /\ LegacyImported
    /\ imp.assigneeCount = 0
    /\ imp.mode = "merge" => lsAssignees = imp.pre.assignees
    /\ imp.mode = "replace" => lsAssignees = LsAbsent

\* a replace import finished of a first-format archive with two bare paths
\* under issue a, into a store whose assignees list held Bob
LegacyWitness ==
  /\ LegacyDone
  /\ imp.mode = "replace"
  /\ imp.pre.assignees = LsList(<<Bob>>)
  /\ imp.ar.entries[1].photos = <<PhotoStr(PathX), PhotoStr(PathY)>>
  /\ imp.photoCount = 2
  /\ Len(issues[IdA].photos) = 2
  /\ issues[IdA].type = "reserve"


(***************************************************************************)
(* SpecFault: the store of an earlier session, possibly after one import   *)
(* of an archive made outside the application, is exported as a whole;     *)
(* reading the photos of an issue may fail                                 *)
(***************************************************************************)
NextFault ==
  \/ ImportOutside
  \/ ImportClear
  \/ ImportConfig
  \/ ImportPhoto
  \/ ImportSaveIssue
  \/ ImportReturn
  \/ ExportSnapshot
  \/ ExportIssue
  \/ ExportIssueFailed
  \/ ExportFinish

SpecFault == InitRT /\ [][NextFault]_vars

\* the export is over and the photos of at least one issue could not be
\* fetched or processed
PhotoFailureSeen == exp.pc \in {"done", "failed"} /\ exp.threw # {}

PhotoIdsInOrder(details) == [k \in 1..Len(details) |-> details[k].id]

OwnPhotoIds(issueId) ==
  LET ps == getPhotosByIssue(photos, issueId)
  IN [k \in 1..Len(ps) |-> ps[k].id]

\* every issue is listed once, in the order of processing, the failed ones
\* without photos and the others with their own
ListedDespiteFailure ==
  /\ exp.pc = "done"
  /\ Len(exp.entries) = Len(exp.order)
  /\ \A k \in 1..Len(exp.order) :
       /\ exp.entries[k].id = exp.order[k].id
       /\ k \in exp.threw =>
            exp.entries[k].photoCount = 0 /\ exp.entries[k].photos = <<>>
       /\ k \notin exp.threw =>
            /\ PhotoIdsInOrder(exp.entries[k].photos) = OwnPhotoIds(exp.order[k].id)
            /\ exp.entries[k].photoCount = Len(exp.entries[k].photos)

\* C13: when fetching or processing the photos of an issue fails, the export
\* still completes, lists that issue once with photoCount 0 and photos [],
\* and lists every other issue with its own photos
ExportToleratesPhotoFailure == PhotoFailureSeen => ListedDespiteFailure

\* the export does tolerate the failure for every issue whose own dates are
\* finite
ExportToleratesOnDatedIssues ==
  (PhotoFailureSeen /\ \A k \in exp.threw :
      exp.order[k].createdAt # NaN /\ exp.order[k].updatedAt # NaN)
    => ListedDespiteFailure


(***************************************************************************)
(* main.ts: the add form, the edit modal and the delete button, one action *)
(* per stretch between awaits                                              *)
(***************************************************************************)
\* a PendingPhoto of the forms: processPhoto and generateId
PendingPhoto(id) ==
  [id |-> id, mimeType |-> MimeJpeg, width |-> 4, height |-> 3,
   blob |-> <<"blob", id>>, thumbnailBlob |-> <<"thumb", id>>]

\* the PhotoRef both submit handlers build from a PendingPhoto
PhotoRefOfPending(pending, issueId, clock) ==
  [id |-> pending.id, issueId |-> issueId, mimeType |-> pending.mimeType,
   width |-> pending.width, height |-> pending.height, createdAt |-> clock,
   blob |-> pending.blob, thumbnailBlob |-> pending.thumbnailBlob]

\* generateId() of the h-th submit of the add form
NewIssueId(h) == <<"n", ToString(h)>>

\* a submit handler whose for-of loop is still iterating the array that
\* pendingPhotos names: a push to the array is seen by the loop
IteratesPending(a) ==
  /\ a.pc = "photos"
  /\ a.j <= Len(a.list)
  /\ a.list = ui.pendingPhotos

\* handlePhotoInput / handlePaste in the add view
AddFormPhoto ==
  /\ Len(ui.pendingPhotos) < MaxPending
  /\ \E uuid \in UuidPool \ usedUuids :
       /\ usedUuids' = usedUuids \cup {uuid}
       /\ ui' = [ui EXCEPT
                  !.pendingPhotos = Append(@, PendingPhoto(uuid)),
                  !.add = [h \in 1..MaxSubmits |->
                            IF IteratesPending(ui.add[h])
                            THEN [ui.add[h] EXCEPT !.list = Append(@, PendingPhoto(uuid))]
                            ELSE ui.add[h]]]
  /\ UNCHANGED <<issues, photos, lsRooms, lsAssignees, now, imp, exp, del, last>>

\* handleAddSubmit up to its first await; a second submit may start while
\* the first one is waiting
handleAddSubmit(h) ==
  /\ ui.add[h].pc = "idle"
  /\ IF h = 1 THEN TRUE ELSE ui.add[h - 1].pc # "idle"
  /\ now' = now + 1
  /\ ui' = [ui EXCEPT !.add[h] = [AddIdle EXCEPT !.pc = "photos",
                                    !.issueId = NewIssueId(h),
                                    !.list = ui.pendingPhotos,
                                    !.clock = 100 + now']]
  /\ UNCHANGED <<issues, photos, lsRooms, lsAssignees, usedUuids, imp, exp, del, last>>

\* await savePhoto(photoRef); photoIds.push(pending.id)
AddSavePhoto(h) ==
  /\ ui.add[h].pc = "photos"
  /\ ui.add[h].j <= Len(ui.add[h].list)
  /\ LET a == ui.add[h]
         pending == a.list[a.j]
     IN /\ photos' = savePhoto(photos, PhotoRefOfPending(pending, a.issueId, a.clock))
        /\ ui' = [ui EXCEPT !.add[h].j = a.j + 1,
                            !.add[h].photoIds = Append(a.photoIds, pending.id)]
  /\ UNCHANGED <<issues, lsRooms, lsAssignees, now, usedUuids, imp, exp, del, last>>

\* the Issue handleAddSubmit builds
AddedIssue(a) ==
  [id |-> a.issueId, code |-> UndefAtom, roomSlug |-> "r1",
   assigneeSlug |-> UndefAtom, type |-> "reserve", title |-> "Fissure",
   description |-> "", status |-> "open", createdAt |-> a.clock,
   updatedAt |-> a.clock, photos |-> a.photoIds]

\* await saveIssue(issue); pendingPhotos = []
AddSaveIssue(h) ==
  /\ ui.add[h].pc = "photos"
  /\ ui.add[h].j > Len(ui.add[h].list)
  /\ issues' = saveIssue(issues, AddedIssue(ui.add[h]))
  /\ ui' = [ui EXCEPT !.add[h].pc = "done", !.pendingPhotos = <<>>]
  /\ UNCHANGED <<photos, lsRooms, lsAssignees, now, usedUuids, imp, exp, del, last>>

\* showEditModal(issue)
showEditModal(id) ==
  /\ ui.edit.pc = "idle"
  /\ id \in DOMAIN issues
  /\ ui' = [ui EXCEPT !.edit = [EditIdle EXCEPT !.pc = "open", !.ref = issues[id],
                                  !.existing = issues[id].photos]]
  /\ UNCHANGED <<issues, photos, lsRooms, lsAssignees, now, usedUuids, imp, exp, del, last>>

\* the remove button of an existing photo
EditRemoveExisting(existingId) ==
  /\ ui.edit.pc = "open"
  /\ LET keep(id) == id # existingId
     IN ui' = [ui EXCEPT !.edit.existing = SelectSeq(@, keep)]
  /\ UNCHANGED <<issues, photos, lsRooms, lsAssignees, now, usedUuids, imp, exp, del, last>>

\* a photo picked or pasted in the edit modal
EditFormPhoto ==
  /\ ui.edit.pc = "open"
  /\ Len(ui.edit.pending) < MaxPending
  /\ \E uuid \in UuidPool \ usedUuids :
       /\ usedUuids' = usedUuids \cup {uuid}
       /\ ui' = [ui EXCEPT !.edit.pending = Append(@, PendingPhoto(uuid))]
  /\ UNCHANGED <<issues, photos, lsRooms, lsAssignees, now, imp, exp, del, last>>

\* handleEditSubmit up to its first await
handleEditSubmit ==
  /\ ui.edit.pc = "open"
  /\ now' = now + 1
  /\ LET gone(id) == \A k \in 1..Len(ui.edit.existing) : ui.edit.existing[k] # id
         removedPhotoIds == SelectSeq(ui.edit.ref.photos, gone)
     IN ui' = [ui EXCEPT !.edit.pc = "submit", !.edit.removed = removedPhotoIds,
                         !.edit.j = 1, !.edit.clock = 100 + now']
  /\ UNCHANGED <<issues, photos, lsRooms, lsAssignees, usedUuids, imp, exp, del, last>>

\* await deletePhoto(photoId), for each removed photo
EditDeletePhoto ==
  /\ ui.edit.pc = "submit"
  /\ ui.edit.j <= Len(ui.edit.removed)
  /\ photos' = Remove(photos, {ui.edit.removed[ui.edit.j]})
  /\ ui' = [ui EXCEPT !.edit.j = @ + 1]
  /\ UNCHANGED <<issues, lsRooms, lsAssignees, now, usedUuids, imp, exp, del, last>>

\* await savePhoto({...}); editExistingPhotoIds.push(pending.id)
EditSavePhoto ==
  /\ ui.edit.pc = "submit"
  /\ ui.edit.j > Len(ui.edit.removed)
  /\ ui.edit.j <= Len(ui.edit.removed) + Len(ui.edit.pending)
  /\ LET pending == ui.edit.pending[ui.edit.j - Len(ui.edit.removed)]
     IN /\ photos' = savePhoto(photos,
                       PhotoRefOfPending(pending, ui.edit.ref.id, ui.edit.clock))
        /\ ui' = [ui EXCEPT !.edit.j = @ + 1,
                            !.edit.existing = Append(@, pending.id)]
  /\ UNCHANGED <<issues, lsRooms, lsAssignees, now, usedUuids, imp, exp, del, last>>

\* editIssueRef with the fields of the form
EditedIssue(e) ==
  [e.ref EXCEPT !.title = "Fissure (vue)", !.photos = e.existing,
                !.updatedAt = e.clock]

\* await saveIssue(editIssueRef)
EditSaveIssue ==
  /\ ui.edit.pc = "submit"
  /\ ui.edit.j > Len(ui.edit.removed) + Len(ui.edit.pending)
  /\ issues' = saveIssue(issues, EditedIssue(ui.edit))
  /\ ui' = [ui EXCEPT !.edit.pc = "done"]
  /\ UNCHANGED <<photos, lsRooms, lsAssignees, now, usedUuids, imp, exp, del, last>>

\* the delete button of the detail view
DeleteClick ==
  /\ del.pc = "idle"
  /\ \E id \in DOMAIN issues : DeleteStart(id)

InitAdd ==
  InitWith({StoredData(FALSE, {}, FALSE, {}), StoredData(TRUE, {"p1"}, FALSE, {})},
           {LsList(<<Room1, Room2>>)}, {LsList(<<Bob>>)})

\* the add form: photos are attached, the form is submitted, possibly twice
NextAdd ==
  \/ AddFormPhoto
  \/ \E h \in 1..MaxSubmits : handleAddSubmit(h)
  \/ \E h \in 1..MaxSubmits : AddSavePhoto(h)
  \/ \E h \in 1..MaxSubmits : AddSaveIssue(h)

SpecAdd == InitAdd /\ [][NextAdd]_vars

InitEdit ==
  InitWith({StoredData(TRUE, {"p1", "p2"}, FALSE, {}),
            StoredData(TRUE, {"p1"}, TRUE, {"p3"})},
           {LsList(<<Room1, Room2>>)}, {LsList(<<Bob>>)})

\* the detail view: an issue is edited and an issue is deleted
NextEdit ==
  \/ \E id \in DOMAIN issues : showEditModal(id)
  \/ \E id \in DOMAIN photos : EditRemoveExisting(id)
  \/ EditFormPhoto
  \/ handleEditSubmit
  \/ EditDeletePhoto
  \/ EditSavePhoto
  \/ EditSaveIssue
  \/ DeleteClick
  \/ DeleteCommit

SpecEdit == InitEdit /\ [][NextEdit]_vars


(***************************************************************************)
(* Ownership of photos                                                     *)
(***************************************************************************)
\* C14: in every state, between the awaits of an operation too, the issueId
\* of every photo record is the id of a stored issue
PhotoOwnerExists == \A k \in DOMAIN photos : photos[k].issueId \in DOMAIN issues

ListedIn(id) == {issues[id].photos[k] : k \in 1..Len(issues[id].photos)}

\* no handler of the forms and no db operation is between two awaits
Quiet ==
  /\ Idle
  /\ \A h \in 1..MaxSubmits : ui.add[h].pc \in {"idle", "done"}
  /\ ui.edit.pc \in {"idle", "open", "done"}

\* C15: after every completed mutator the ids in the photos list of an
\* issue are the ids of the photo records whose issueId is the id of the
\* issue
PhotosListMatchesRecords ==
  Quiet => \A id \in DOMAIN issues : ListedIn(id) = OwnedBy(photos, id)

\* C16: in every state no photo id is in the photos lists of two issues
PhotoOwnedOnce ==
  \A i1 \in DOMAIN issues, i2 \in DOMAIN issues :
    i1 # i2 => ListedIn(i1) \cap ListedIn(i2) = {}

(***************************************************************************)
(* SpecCounts: one import of an archive with complete and incomplete       *)
(* entries, good and bad photo entries, rooms and assignees that are new,  *)
(* stored already, repeated or invalid                                     *)
(***************************************************************************)
CountEntries ==
  {Entry(IdA, "r1", "Fissure", "open", "reserve",
         <<PhotoObj(PathX, "p1", PathXThumb), PhotoObj(PathSvg, "p2", PathXThumb)>>),
   Entry(IdB, "r2", "Prise", "done", "todo", <<PhotoStr(PathY)>>),
   Entry(IdB, "r2", UndefAtom, "open", "reserve", <<PhotoObj(PathX, "p3", PathXThumb)>>),
   Entry(IdA, "r1", "Fissure bis", "open", "reserve", <<>>)}

CountRooms == {NoField, Field(<<Room1, Room3>>), Field(<<Room3, RoomNoSlug, Room3Again>>)}
CountAssignees == {NoField, Field(<<Bob, Eve>>)}

ArchivesCounts ==
  {Archive(es, r, a) : es \in SeqsUpTo(CountEntries, MaxEntries),
                       r \in CountRooms, a \in CountAssignees}

InitCounts ==
  InitWith({StoredData(FALSE, {}, FALSE, {}), StoredData(TRUE, {"p1"}, FALSE, {})},
           {LsList(<<Room1, Room2>>)}, {LsAbsent, LsList(<<Bob>>)})

ImportCounts ==
  /\ Idle
  /\ now = 0
  /\ \E ar \in ArchivesCounts, mode \in Modes : ImportStart(ar, mode, "external")

NextCounts ==
  \/ ImportCounts
  \/ ImportClear
  \/ ImportConfig
  \/ ImportSkipIssue
  \/ ImportPhoto
  \/ ImportSaveIssue
  \/ ImportReturn

SpecCounts == InitCounts /\ [][NextCounts]_vars

\* the number of entries of a persisted list; no list counts as empty
ListSize(entry) == IF entry.present THEN Len(entry.list) ELSE 0

\* the good photo entries of the complete issue entries
WrittenPairs == {q \in GoodPairs : q[1] \in CompleteAt}

\* the complete entries of the archive carry pairwise distinct ids
DistinctIds ==
  \A n \in CompleteAt, m \in CompleteAt :
    imp.ar.entries[n].id = imp.ar.entries[m].id => n = m

\* C17: the counts importZip returns are what it wrote - issueCount the
\* number of issue records written (one per complete entry), photoCount the
\* number of photo records written (one per good photo entry of a complete
\* entry), and in merge mode roomCount and assigneeCount the growth of the
\* rooms and of the assignees list
ImportCountsMatch ==
  (imp.pc = "done" /\ imp.src = "external") =>
    /\ imp.issueCount = Cardinality(CompleteAt)
    /\ CompleteIds \subseteq DOMAIN issues
    /\ (DistinctIds /\ imp.mode = "replace") => imp.issueCount = Cardinality(DOMAIN issues)
    /\ imp.photoCount = Cardinality(WrittenPairs)
    /\ (DistinctIds /\ imp.mode = "replace") => imp.photoCount = Cardinality(DOMAIN photos)
    /\ imp.mode = "merge" =>
         /\ imp.roomCount = ListSize(lsRooms) - ListSize(imp.pre.rooms)
         /\ imp.assigneeCount = ListSize(lsAssignees) - ListSize(imp.pre.assignees)

\* a merge import finished that wrote one of two issue entries and one of
\* two photo entries, appended one of two rooms and both assignees
ImportCountsWitness ==
  /\ imp.pc = "done"
  /\ imp.mode = "merge"
  /\ Len(imp.ar.entries) = 2
  /\ imp.issueCount = 1
  /\ imp.photoCount = 1
  /\ imp.ar.rooms = Field(<<Room1, Room3>>)
  /\ imp.roomCount = 1
  /\ ListSize(lsRooms) = 3
  /\ imp.pre.assignees = LsAbsent
  /\ imp.assigneeCount = 2
  /\ ListSize(lsAssignees) = 2

(***************************************************************************)
(* SpecConfig: the assignees modal of main.ts (add, delete) and one import *)
(* of an archive of rooms and assignees, in any order                      *)
(***************************************************************************)
\* the characters of a typed name; E' is the letter E with an acute accent
\* and ' the combining acute accent of its decomposed form
TypedNames ==
  {<<"A", "n", "n">>, <<" ", "B", "o", "b">>, <<"E'", "v", "e">>,
   <<"A", "n", "n", " ", "B">>, <<"-">>, <<" ">>}

RECURSIVE Join(_)
Join(cs) == IF cs = <<>> THEN "" ELSE cs[1] \o Join(Tail(cs))

RECURSIVE TrimStart(_)
TrimStart(cs) == IF cs # <<>> /\ cs[1] = " " THEN TrimStart(Tail(cs)) ELSE cs

RECURSIVE TrimEnd(_)
TrimEnd(cs) ==
  IF cs # <<>> /\ cs[Len(cs)] = " " THEN TrimEnd(SubSeq(cs, 1, Len(cs) - 1)) ELSE cs

\* input.value.trim()
Trim(cs) == TrimEnd(TrimStart(cs))

\* toLowerCase() of one character
LowerChar(c) ==
  CASE c = "A" -> "a" [] c = "B" -> "b" [] c = "E" -> "e" [] c = "E'" -> "e'"
    [] OTHER -> c

\* normalize('NFD') of one character
Decomposed(c) == IF c = "e'" THEN <<"e", "'">> ELSE <<c>>

RECURSIVE MapFlat(_)
MapFlat(cs) ==
  IF cs = <<>> THEN <<>> ELSE Decomposed(LowerChar(cs[1])) \o MapFlat(Tail(cs))

NotCombining(c) == c # "'"
SlugChar(c) == c \in {"a", "b", "e", "n", "o", "v"}

\* replace(/[^a-z0-9]+/g, '-'): every run of other characters becomes one '-'
RECURSIVE Dashed(_, _)
Dashed(cs, inRun) ==
  IF cs = <<>> THEN <<>>
  ELSE IF SlugChar(cs[1]) THEN <<cs[1]>> \o Dashed(Tail(cs), FALSE)
  ELSE IF inRun THEN Dashed(Tail(cs), TRUE)
  ELSE <<"-">> \o Dashed(Tail(cs), TRUE)

\* replace(/^-|-$/g, '')
EdgeDashesOff(cs) ==
  LET a == IF cs # <<>> /\ cs[1] = "-" THEN Tail(cs) ELSE cs
  IN IF a # <<>> /\ a[Len(a)] = "-" THEN SubSeq(a, 1, Len(a) - 1) ELSE a

\* the slug the modal derives from a name
SlugOfName(cs) == Join(EdgeDashesOff(Dashed(SelectSeq(MapFlat(cs), NotCombining), FALSE)))

\* localeCompare(, 'fr') on the names of the model
NameOrder == <<"-", "Ann", "Ann B", "Bob", "Eve", "E've", "Eve M.">>
NameRank(name) == CHOOSE k \in 1..Len(NameOrder) : NameOrder[k] = name

\* Array.prototype.sort with the name comparison (stable)
RECURSIVE SortByName(_)
SortByName(list) ==
  IF list = <<>> THEN <<>>
  ELSE LET rest == SortByName(SubSeq(list, 1, Len(list) - 1))
           x == list[Len(list)]
           before(y) == NameRank(y.name) <= NameRank(x.name)
           after(y) == ~before(y)
       IN SelectSeq(rest, before) \o <<x>> \o SelectSeq(rest, after)

\* the click handler of the add button
AssigneeAdd(typed) ==
  LET name == Join(Trim(typed))
      slug == SlugOfName(Trim(typed))
  IN /\ name # ""
     /\ slug # ""
     /\ slug \notin SlugsOf(ui.assignees)
     /\ LET list == SortByName(Append(ui.assignees,
                      [slug |-> slug, name |-> name, letter |-> UndefAtom]))
        IN /\ ui' = [ui EXCEPT !.assignees = list]
           /\ lsAssignees' = saveAssignees(list)
     /\ UNCHANGED <<issues, photos, lsRooms, now, usedUuids, imp, exp, del, last>>

\* the click handler of a delete button
AssigneeDelete(slug) ==
  LET keep(a) == a.slug # slug
      list == SelectSeq(ui.assignees, keep)
  IN /\ ui' = [ui EXCEPT !.assignees = list]
     /\ lsAssignees' = saveAssignees(list)
     /\ UNCHANGED <<issues, photos, lsRooms, now, usedUuids, imp, exp, del, last>>

\* performImport after importZip has returned: rooms = getRooms() stores
\* the default rooms when no list is stored; assignees = getAssignees()
performImportReload ==
  /\ imp.pc = "loop"
  /\ imp.i > Len(imp.ar.entries)
  /\ imp' = [imp EXCEPT !.pc = "done"]
  /\ lsRooms' = getRooms(lsRooms).entry
  /\ ui' = [ui EXCEPT !.rooms = getRooms(lsRooms).rooms,
                      !.assignees = getAssignees(lsAssignees)]
  /\ UNCHANGED <<issues, photos, lsAssignees, now, usedUuids, exp, del, last>>

ArchivesConfig ==
  {Archive(<<>>, r, a) :
     r \in {NoField, Field(<<Room3, Room3Again>>), Field(<<Room1, RoomNoSlug>>)},
     a \in {NoField, Field(<<Bob, Eve>>), Field(<<Eve, EveAgain>>)}}

\* after init(): getRooms() has stored a rooms list if there was none
InitConfig ==
  InitWith({StoredData(FALSE, {}, FALSE, {})},
           {LsList(DEFAULT_ROOMS), LsList(<<Room1, Room2>>)},
           {LsAbsent, LsList(<<Bob>>)})

ImportConfigFile ==
  /\ Idle
  /\ now = 0
  /\ \E ar \in ArchivesConfig, mode \in Modes : ImportStart(ar, mode, "external")

NextConfig ==
  \/ ImportConfigFile
  \/ ImportClear
  \/ ImportConfig
  \/ performImportReload
  \/ \E typed \in TypedNames : AssigneeAdd(typed)
  \/ \E k \in 1..Len(ui.assignees) : AssigneeDelete(ui.assignees[k].slug)

SpecConfig == InitConfig /\ [][NextConfig]_vars

\* the entries of a persisted list have non-empty slugs, no two the same
SlugsValid(entry) ==
  \A k \in 1..ListSize(entry) :
    /\ entry.list[k].slug # ""
    /\ \A n \in 1..ListSize(entry) : entry.list[n].slug = entry.list[k].slug => n = k

\* C19: in every state the persisted rooms list and the persisted
\* assignees list hold only entries with a non-empty slug, and no two
\* entries of one list have the same slug
ConfigSlugsValid == SlugsValid(lsRooms) /\ SlugsValid(lsAssignees)

\* what the code keeps: no persisted entry has an empty slug
ConfigSlugsNonEmpty ==
  /\ \A k \in 1..ListSize(lsRooms) : lsRooms.list[k].slug # ""
  /\ \A k \in 1..ListSize(lsAssignees) : lsAssignees.list[k].slug # ""

(***************************************************************************)
(* saveIssue as the edit form calls it, on an issue that is stored and on  *)
(* an issue that was deleted while the form was open                       *)
(***************************************************************************)
\* the step in which await saveIssue(editIssueRef) completes
SaveIssueStep == ui.edit.pc = "submit" /\ ui'.edit.pc = "done"

\* C18: saveIssue(r) inserts or replaces by id without merging fields -
\* afterwards getIssue(r.id) is r in every field, getAllIssues holds exactly
\* one record with the id of r, and every other record is unchanged
SaveIssueReplaces ==
  [][SaveIssueStep =>
       LET r == EditedIssue(ui.edit)
       IN /\ getIssue(issues', r.id) = [found |-> TRUE, value |-> r]
          /\ Cardinality({x \in StoredIssues' : x.id = r.id}) = 1
          /\ DOMAIN issues' = (DOMAIN issues) \cup {r.id}
          /\ \A k \in (DOMAIN issues) \ {r.id} : issues'[k] = issues[k]
          /\ photos' = photos]_vars

\* the edit form has saved issue a with another title and another photos
\* list over the stored one, next to issue a-1
SaveIssueWitness ==
  /\ ui.edit.pc = "done"
  /\ ui.edit.ref = IssueA(<<"p1">>)
  /\ ui.edit.existing # <<"p1">>
  /\ getIssue(issues, IdA) = [found |-> TRUE, value |-> EditedIssue(ui.edit)]
  /\ getIssue(issues, IdB) = [found |-> TRUE, value |-> IssueB(<<"p3">>)]

\* the edit form has saved an issue that was deleted while the form was open
SaveIssueInsertWitness ==
  /\ ui.edit.pc = "done"
  /\ del.pc = "done"
  /\ del.id = ui.edit.ref.id
  /\ getIssue(issues, ui.edit.ref.id) = [found |-> TRUE, value |-> EditedIssue(ui.edit)]

(***************************************************************************)
(* deleteIssue beside a savePhoto for the same issue                       *)
(***************************************************************************)
\* the step in which the readwrite transaction of deleteIssue commits
DeleteCommitStep == del.pc = "tx" /\ del'.pc = "done"

\* C20: deleteIssue enumerates the photos of the issue, deletes them and
\* deletes the issue as one unit - when its transaction commits the issue is
\* gone and no photo record with its issueId remains, whatever savePhoto
\* completed since the photos were enumerated
DeleteIssueAtomic ==
  [][DeleteCommitStep =>
       /\ del.id \notin DOMAIN issues'
       /\ OwnedBy(photos', del.id) = {}]_vars

\* what the transaction does remove: the issue and the photos enumerated
\* before it began
DeleteRemovesEnumerated ==
  [][DeleteCommitStep =>
       /\ del.id \notin DOMAIN issues'
       /\ DOMAIN photos' = (DOMAIN photos) \ del.photoIds]_vars

(***************************************************************************)
(* SpecReject: one import in which an await of a storage call may reject   *)
(***************************************************************************)
\* clearAllData, savePhoto or saveIssue rejects: importZip rejects at that
\* await, the rejected call has written nothing, performImport shows a toast
ImportReject ==
  /\ \/ imp.pc = "clear"
     \/ /\ InLoop
        /\ EntryValid(CurEntry)
        /\ IF imp.j <= Len(CurEntry.photos)
           THEN ~PhotoSkipped(imp.ar, CurEntry.photos[imp.j])
           ELSE TRUE
  /\ imp' = [imp EXCEPT !.pc = "failed"]
  /\ UNCHANGED <<issues, photos, lsRooms, lsAssignees, now, usedUuids, exp, del, last, ui>>

NextReject ==
  \/ ImportCounts
  \/ ImportClear
  \/ ImportConfig
  \/ ImportSkipIssue
  \/ ImportPhoto
  \/ ImportSaveIssue
  \/ ImportReturn
  \/ ImportReject

SpecReject == InitCounts /\ [][NextReject]_vars

\* an import that read a well-formed archive and then failed
FailedAfterValidation == imp.pc = "failed" /\ imp.ar.kind = "ok"

\* every complete entry of the archive is stored, and every good photo entry
\* of a complete entry that carries an id is stored under that id: what a
\* store that holds the complete result of the import must satisfy
HoldsCompleteResult ==
  /\ \A n \in CompleteAt : imp.ar.entries[n].id \in DOMAIN issues
  /\ \A id \in CompleteIds : issues[id].title = imp.ar.entries[LastEntryOf(id)].title
  /\ \A q \in WrittenPairs :
       LET pd == imp.ar.entries[q[1]].photos[q[2]]
       IN ~pd.isString => pd.id \in DOMAIN photos

\* C21: an import that fails after validation leaves no partial result -
\* the store holds exactly what it held before the import, or the complete
\* result of the import, in replace and in merge mode
ImportAllOrNothing ==
  FailedAfterValidation => (StoreUnchangedSince(imp.pre) \/ HoldsCompleteResult)

\* what the code keeps: a merge import that fails has removed nothing
FailedMergeKeepsStored ==
  (FailedAfterValidation /\ imp.mode = "merge") =>
    /\ DOMAIN imp.pre.issues \subseteq DOMAIN issues
    /\ DOMAIN imp.pre.photos \subseteq DOMAIN photos

(***************************************************************************)
(* What a merge import leaves alone                                        *)
(***************************************************************************)
\* the ids the photo entries of the archive give to the photos written
NamedPhotoIds ==
  {imp.ar.entries[q[1]].photos[q[2]].id :
     q \in {w \in WrittenPairs : ~imp.ar.entries[w[1]].photos[w[2]].isString}}

\* every entry of the list before is an entry of the list now
StillListed(before, entry) ==
  \A k \in 1..ListSize(before) :
    \E n \in 1..ListSize(entry) : entry.list[n] = before.list[k]

\* C22: a merge import leaves untouched what the archive does not name -
\* the stored issues whose id is the id of no complete entry, the stored
\* photos whose id the import does not write, and every stored room and
\* assignee entry, with its slug, name and letter
MergeLeavesRest ==
  (imp.mode = "merge" /\ imp.src = "external" /\ imp.pc \in {"config", "loop", "done"}) =>
    /\ \A id \in (DOMAIN imp.pre.issues) \ CompleteIds :
         id \in DOMAIN issues /\ issues[id] = imp.pre.issues[id]
    /\ \A k \in (DOMAIN imp.pre.photos) \ NamedPhotoIds :
         k \in DOMAIN photos /\ photos[k] = imp.pre.photos[k]
    /\ StillListed(imp.pre.rooms, lsRooms)
    /\ StillListed(imp.pre.assignees, lsAssignees)

\* a merge import finished that wrote issue a-1 and appended a room beside
\* the stored issue a, its photo p1, the rooms r1 and r2 and the assignee
MergeLeavesRestWitness ==
  /\ imp.pc = "done"
  /\ imp.mode = "merge"
  /\ CompleteIds = {IdB}
  /\ imp.roomCount = 1
  /\ IdA \in DOMAIN imp.pre.issues
  /\ issues[IdA] = imp.pre.issues[IdA]
  /\ "p1" \in DOMAIN imp.pre.photos
  /\ photos["p1"] = imp.pre.photos["p1"]
  /\ ListSize(imp.pre.assignees) = 1
  /\ IdB \in DOMAIN issues

(***************************************************************************)
(* SpecReapply: a merge import that completes or is interrupted by a       *)
(* rejected storage call, and the merge import of the same file after it   *)
(***************************************************************************)
ArchivesReapply ==
  {Archive(<<EntryOfB>>, r, a) :
     r \in {NoField, Field(<<Room1, Room3>>), Field(<<Room3, Room3Again>>)},
     a \in {NoField, Field(<<Bob, Eve>>)}}

ImportReapplyFile ==
  /\ Idle
  /\ now = 0
  /\ \E ar \in ArchivesReapply : ImportStart(ar, "merge", "external")

\* the merge import got past the rooms and assignees blocks
PastConfig(p) ==
  \/ p.pc \in {"loop", "done"}
  \/ p.pc = "failed" /\ p.ar.kind = "ok"

\* the user picks the same file again, in merge mode, after an import that
\* completed or that was interrupted once it had written the rooms
ImportReapply ==
  /\ imp.pc \in {"done", "failed"}
  /\ imp.src = "external"
  /\ PastConfig(imp)
  /\ ImportStart(imp.ar, "merge", "again")

NextReapply ==
  \/ ImportReapplyFile
  \/ ImportReapply
  \/ ImportConfig
  \/ ImportPhoto
  \/ ImportSaveIssue
  \/ performImportReload
  \/ ImportReject

SpecReapply == InitCounts /\ [][NextReapply]_vars

\* the second import has got past the rooms and assignees blocks
ReappliedConfig == imp.src = "again" /\ PastConfig(imp)

ReapplyAfterInterruptWitness ==
  /\ imp.pc = "done"
  /\ imp.src = "again"
  /\ ~last.valid
  /\ imp.ar.rooms = Field(<<Room1, Room3>>)
  /\ \E k \in 1..ListSize(lsRooms) : lsRooms.list[k] = Room3
  /\ imp.roomCount = 0

(***************************************************************************)
(* SpecOrder: exports of lists of the stored issues a (room r1), a-1 (room *)
(* r2) and a-1-thumb (room r3), with rooms that have and have not a letter *)
(***************************************************************************)
RoomLaundry == [slug |-> "r3", name |-> "Buanderie", letter |-> UndefAtom]

InitOrder ==
  InitWith({StoreABC},
           {LsList(<<Room1, Room2, Room3>>), LsList(<<Room1, Room2, RoomLaundry>>)},
           {LsList(<<Bob>>)})

NextOrder ==
  \/ ExportAny
  \/ ExportIssue
  \/ ExportFinish

SpecOrder == InitOrder /\ [][NextOrder]_vars

\* the room of the export's rooms list with the slug
RoomWith(slug) == CHOOSE r \in {exp.rooms[k] : k \in 1..Len(exp.rooms)} : r.slug = slug

\* the group of room s1 is to come before the group of room s2: by letter
\* when both have one, a room with a letter before a room without, by name
\* when both have none
GroupBefore(s1, s2) ==
  LET r1 == RoomWith(s1)
      r2 == RoomWith(s2)
  IN IF r1.letter # UndefAtom /\ r2.letter # UndefAtom
     THEN LetterRank(r1.letter) <= LetterRank(r2.letter)
     ELSE IF r1.letter # UndefAtom THEN TRUE
     ELSE IF r2.letter # UndefAtom THEN FALSE
     ELSE RoomNameRank(r1.name) <= RoomNameRank(r2.name)

IdsInRoom(list, slug) ==
  LET inRoom(x) == x.roomSlug = slug
      sel == SelectSeq(list, inRoom)
  IN [k \in 1..Len(sel) |-> sel[k].id]

\* C24: in the exported manifest the issues of one room are contiguous, the
\* groups come by the letter of the room when it has one and by the
\* comparison of the names among the rooms without a letter, and inside a
\* group the issues keep the order of the input list
ExportGroupedInOrder ==
  exp.pc = "done" =>
    LET es == exp.entries
    IN /\ \A i \in 1..Len(es), j \in 1..Len(es), k \in 1..Len(es) :
            (i < j /\ j < k /\ es[i].roomSlug = es[k].roomSlug)
              => es[j].roomSlug = es[i].roomSlug
       /\ \A i \in 1..Len(es), j \in 1..Len(es) :
            (i < j /\ es[i].roomSlug # es[j].roomSlug)
              => GroupBefore(es[i].roomSlug, es[j].roomSlug)
       /\ \A slug \in {"r1", "r2", "r3"} :
            IdsInRoom(es, slug) = IdsInRoom(exp.input, slug)

\* what the code keeps: contiguous groups, rooms with a letter by letter
\* and before the rooms without, input order inside a group
ExportGroupedByLetter ==
  exp.pc = "done" =>
    LET es == exp.entries
    IN /\ \A i \in 1..Len(es), j \in 1..Len(es), k \in 1..Len(es) :
            (i < j /\ j < k /\ es[i].roomSlug = es[k].roomSlug)
              => es[j].roomSlug = es[i].roomSlug
       /\ \A i \in 1..Len(es), j \in 1..Len(es) :
            (i < j /\ es[i].roomSlug # es[j].roomSlug
               /\ RoomWith(es[j].roomSlug).letter # UndefAtom)
              => /\ RoomWith(es[i].roomSlug).letter # UndefAtom
                 /\ LetterRank(RoomWith(es[i].roomSlug).letter)
                      <= LetterRank(RoomWith(es[j].roomSlug).letter)
       /\ \A slug \in {"r1", "r2", "r3"} :
            IdsInRoom(es, slug) = IdsInRoom(exp.input, slug)


(***************************************************************************)
(* SpecPaths: photos of every kind of MIME type are exported, the same     *)
(* issue several times included, and the exported archive is imported      *)
(***************************************************************************)
MimeBare == <<"webp">>
MimeNoSubtype == <<"image", "/">>
StoredMimes == {MimeJpeg, MimePng, MimeSvg, MimeBare, MimeNoSubtype}

StoreMimes(m1, m2) ==
  [issues |-> PutAll(EmptyStore, {IssueA(<<"p1">>), IssueB(<<"p3">>), IssueC(<<"u1">>)}),
   photos |-> PutAll(EmptyStore, {Photo("p1", IdA, m1, 1),
                                  Photo("p3", IdB, m2, 2),
                                  Photo("u1", IdC, m2, 3)})]

InitPaths ==
  InitWith({StoreMimes(m1, m2) : m1 \in StoredMimes, m2 \in StoredMimes},
           {LsList(<<Room1, Room2, Room3>>)}, {LsList(<<Bob>>)})

\* the archive of the export that just finished is imported
ImportAnyExported ==
  /\ Idle
  /\ exp.pc = "done"
  /\ \E mode \in Modes : ImportStart(ExportedArchive, mode, "exported")

NextPaths ==
  \/ ExportAny
  \/ ExportIssue
  \/ ExportFinish
  \/ ImportAnyExported
  \/ ImportClear
  \/ ImportConfig
  \/ ImportPhoto
  \/ ImportSaveIssue
  \/ ImportReturn

SpecPaths == InitPaths /\ [][NextPaths]_vars

\* the extension the MIME type of a stored photo stands for
SubtypeExt(mime) ==
  IF Len(mime) >= 3 /\ mime[2] = "/" /\ ToLower(<<mime[3]>>) \in SAFE_EXTENSIONS
  THEN ToLower(<<mime[3]>>)
  ELSE <<"jpg">>

Counters == 1..(2 * MaxExportLen)

\* img/{base}.{ext} or img/{base}-{counter}.{ext}
HasForm(path, base, ext) ==
  \/ path = <<"img/">> \o base \o <<".">> \o ext
  \/ \E c \in Counters :
       path = <<"img/">> \o base \o <<"-", ToString(c), ".">> \o ext

\* the photo entries of manifest entry e have the form, photo by photo
EntryPathsFormed(e) ==
  LET ps == getPhotosByIssue(photos, e.id)
  IN \A k \in 1..Len(e.photos) :
       LET ext == SubtypeExt(ps[k].mimeType)
           base == e.id \o <<"-", ToString(k)>>
       IN /\ HasForm(e.photos[k].path, base, ext)
          /\ HasForm(e.photos[k].thumbnailPath, base \o <<"-", "thumb">>, ext)

\* C25: every path and thumbnailPath of the manifest has the form
\* img/{issueId}-{index+1}[-thumb][-{counter}].{ext} with the extension of
\* the photo's MIME subtype when that is allow-listed and jpg otherwise, and
\* no photo entry of an exported archive is skipped when it is imported
ExportPathsImportable ==
  /\ (exp.pc \in {"run", "done"}) =>
        \A n \in 1..Len(exp.entries) : EntryPathsFormed(exp.entries[n])
  /\ (Running(imp) \/ imp.pc = "done") /\ imp.src = "exported" =>
        \A n \in 1..Len(imp.ar.entries) :
          \A k \in 1..Len(imp.ar.entries[n].photos) :
            ~PhotoSkipped(imp.ar, imp.ar.entries[n].photos[k])

\* an archive with a counter in a name, written for photos whose MIME types
\* are not allow-listed, was imported and every photo entry was saved
ExportPathsWitness ==
  /\ imp.pc = "done"
  /\ imp.src = "exported"
  /\ Len(imp.ar.entries) = 3
  /\ imp.photoCount = 3
  /\ <<"img/", "a", "-", "1", "-", "1", ".", "jpg">> \in DOMAIN imp.ar.files
  /\ \E k \in DOMAIN imp.pre.photos :
       imp.pre.photos[k].mimeType \in {MimeSvg, MimeBare, MimeNoSubtype}


\* how often id stands in a list of issues or of manifest entries
TimesListed(list, id) == Cardinality({k \in 1..Len(list) : list[k].id = id})

\* C26: in the manifest of a finished export totalIssues is the number of
\* entries of `issues`, every input issue is listed exactly as often as it
\* stands in the input, once for a list without repetition, also when its
\* photos could not be loaded, openIssues + doneIssues = totalIssues, and
\* photoCount of every entry is the length of its photos array
ManifestTotalsConsistent ==
  exp.pc = "done" =>
    /\ ExportedArchive.totalIssues = Len(ExportedArchive.entries)
    /\ \A k \in 1..Len(exp.input) :
         TimesListed(ExportedArchive.entries, exp.input[k].id)
           = TimesListed(exp.input, exp.input[k].id)
    /\ exp.snapshot =>
         \A id \in DOMAIN issues : TimesListed(ExportedArchive.entries, id) = 1
    /\ ExportedArchive.openIssues + ExportedArchive.doneIssues
         = ExportedArchive.totalIssues
    /\ \A n \in 1..Len(ExportedArchive.entries) :
         ExportedArchive.entries[n].photoCount
           = Len(ExportedArchive.entries[n].photos)

\* an export of an open and a done issue finished, the photos of one of
\* them, which has photos, could not be loaded
ManifestTotalsWitness ==
  /\ exp.pc = "done"
  /\ exp.open = 1
  /\ exp.done = 1
  /\ \E k \in exp.threw : exp.order[k].photos # <<>>
  /\ \E k \in 1..Len(exp.order) : k \notin exp.threw /\ exp.entries[k].photoCount > 0


(***************************************************************************)
(* SpecThumbs: one import of an archive whose photo entries name a         *)
(* thumbnail that is there, absent, empty, of a disallowed extension or    *)
(* missing from the archive                                                *)
(***************************************************************************)
ThumbPaths == {PathXThumb, PathY, Undef, <<>>, PathSvg, PathGone}

ThumbEntries ==
  {PhotoObj(PathX, "p1", t) : t \in ThumbPaths} \cup {PhotoStr(PathX)}

ArchivesThumbs ==
  {Archive(<<EntryOfA(ps)>>, NoField, NoField) :
     ps \in SeqsUpTo(ThumbEntries, MaxPhotoEntries)}

ImportThumbs ==
  /\ Idle
  /\ now = 0
  /\ \E ar \in ArchivesThumbs, mode \in Modes : ImportStart(ar, mode, "external")

NextThumbs ==
  \/ ImportThumbs
  \/ ImportClear
  \/ ImportConfig
  \/ ImportPhoto
  \/ ImportSaveIssue
  \/ ImportReturn

SpecThumbs == InitPhotos /\ [][NextThumbs]_vars

\* the photo entry the loop has just dealt with
JustHandled == InLoop /\ EntryValid(CurEntry) /\ imp.j > 1
PrevPhoto == CurEntry.photos[imp.j - 1]

\* the entry is structured and names a thumbnail that can be used
ThumbUsable(ar, pd) ==
  /\ ~pd.isString
  /\ pd.thumbnailPath \notin {Undef, <<>>}
  /\ HasAllowedExtension(pd.thumbnailPath)
  /\ pd.thumbnailPath \in DOMAIN ar.files

\* C27: the thumbnail stored for a photo entry is the file of thumbnailPath
\* when the entry is structured and that path is present, has an
\* allow-listed extension and names a file of the archive; in every other
\* case it is the full image, and the photo is imported all the same
ThumbnailFallsBack ==
  (JustHandled /\ GoodPhotoEntry(PrevPhoto)) =>
    /\ imp.photoIds # <<>>
    /\ LET id == imp.photoIds[Len(imp.photoIds)]
       IN /\ id \in DOMAIN photos
          /\ photos[id].blob = imp.ar.files[PrevPhoto.path]
          /\ photos[id].thumbnailBlob =
               IF ThumbUsable(imp.ar, PrevPhoto)
               THEN imp.ar.files[PrevPhoto.thumbnailPath]
               ELSE photos[id].blob

\* a photo was imported with the full image as thumbnail because the file of
\* its thumbnailPath has a disallowed extension, after a photo imported with
\* its own thumbnail
ThumbnailWitness ==
  /\ JustHandled
  /\ imp.j = 3
  /\ CurEntry.photos[1].thumbnailPath = PathXThumb
  /\ PrevPhoto.thumbnailPath = PathSvg
  /\ photos["p1"].thumbnailBlob = imp.ar.files[PathX]
  /\ imp.photoCount = 2


(***************************************************************************)
(* Photos lists name stored photos                                         *)
(***************************************************************************)
\* C28: in every state, between the awaits of an edit submit, an add submit
\* and an import too, every id in the photos list of a stored issue is the
\* id of a stored photo record
ListedPhotosStored ==
  \A id \in DOMAIN issues : ListedIn(id) \subseteq DOMAIN photos

\* what the edit submit keeps: once it has saved the issue, and no delete of
\* the issue ran meanwhile, the photos the saved issue lists are stored
EditSavedPhotosStored ==
  (ui.edit.pc = "done" /\ del.pc = "idle" /\ ui.edit.ref.id \in DOMAIN issues) =>
    ListedIn(ui.edit.ref.id) \subseteq DOMAIN photos


(***************************************************************************)
(* Imported data can be exported                                           *)
(***************************************************************************)
FiniteDates ==
  /\ \A id \in DOMAIN issues :
       issues[id].createdAt # NaN /\ issues[id].updatedAt # NaN
  /\ \A k \in DOMAIN photos : photos[k].createdAt # NaN

ExportListsAll ==
  /\ exp.pc # "failed"
  /\ exp.pc = "done" =>
       /\ Len(exp.entries) = Len(exp.order)
       /\ \A k \in 1..Len(exp.order) :
            /\ exp.entries[k].id = exp.order[k].id
            /\ PhotoIdsInOrder(exp.entries[k].photos) = OwnPhotoIds(exp.order[k].id)

\* C29: every issue and photo importZip writes has finite createdAt and
\* updatedAt, the import time standing in for a missing or unparseable date
\* of the manifest, and an export of the imported data completes and lists
\* every issue with all of its photos
ImportedStoreExportable == FiniteDates /\ ExportListsAll

\* no date of the imported manifest is an unparseable string
ManifestDatesParse ==
  \A n \in 1..Len(imp.ar.entries) :
    /\ imp.ar.entries[n].createdAt.kind # "garbage"
    /\ imp.ar.entries[n].updatedAt.kind # "garbage"
    /\ \A k \in 1..Len(imp.ar.entries[n].photos) :
         imp.ar.entries[n].photos[k].createdAt.kind # "garbage"

\* what the code keeps: the dates written by the import of a manifest made
\* outside the application, whose dates are absent or parse, are finite
ImportedDatesFiniteWhenParsed ==
  ((Running(imp) \/ imp.pc = "done") /\ imp.src = "external" /\ ManifestDatesParse)
    => FiniteDates


(***************************************************************************)
(* SpecGetRooms: the page is loaded on what an earlier session, or nothing,*)
(* left under the rooms key; init() reads the rooms, and they are read     *)
(* again                                                                   *)
(***************************************************************************)
StoredRoomValues ==
  {LsAbsent, LsUnparsable}
    \cup {LsList(l) : l \in SeqsUpTo({Room1, Room2, Room3, RoomLaundry}, MaxExportLen)}

InitGetRooms ==
  /\ issues = EmptyStore
  /\ photos = EmptyStore
  /\ lsRooms \in StoredRoomValues
  /\ lsAssignees = LsAbsent
  /\ now = 0
  /\ usedUuids = {}
  /\ imp = ImpIdle
  /\ exp = ExpIdle
  /\ del = DelIdle
  /\ last = LastNone
  /\ ui = UiIdle

\* init(): rooms = getRooms(), the first call since the page was loaded
init ==
  /\ now = 0
  /\ now' = 1
  /\ lsRooms' = getRooms(lsRooms).entry
  /\ ui' = [ui EXCEPT !.rooms = getRooms(lsRooms).rooms]
  /\ UNCHANGED <<issues, photos, lsAssignees, usedUuids, imp, exp, del, last>>

\* rooms = getRooms() once more, nothing having written the rooms key
RoomsReadAgain ==
  /\ now = 1
  /\ now' = 2
  /\ lsRooms' = getRooms(lsRooms).entry
  /\ ui' = [ui EXCEPT !.rooms = getRooms(lsRooms).rooms]
  /\ UNCHANGED <<issues, photos, lsAssignees, usedUuids, imp, exp, del, last>>

NextGetRooms ==
  \/ init
  \/ RoomsReadAgain

SpecGetRooms == InitGetRooms /\ [][NextGetRooms]_vars

Seeds(entry) == ~entry.present \/ Unparsable(entry)

\* C30: the second of two consecutive calls of getRooms returns the rooms
\* of the first in the same order, also when the first call seeded the
\* defaults; a call that seeds leaves DEFAULT_ROOMS stored and returns a
\* list that is not empty
GetRoomsStable ==
  /\ [][(now = 1 /\ now' = 2) => ui'.rooms = ui.rooms]_vars
  /\ [][(now = 0 /\ now' = 1 /\ Seeds(lsRooms)) =>
          (lsRooms' = LsList(DEFAULT_ROOMS) /\ ui'.rooms # <<>>)]_vars

\* what the code keeps: the second call returns what the first returned
\* when the first call found a list stored, and a seeding call stores
\* DEFAULT_ROOMS and returns them
GetRoomsStableOnStored ==
  /\ [][(now = 1 /\ now' = 2 /\ ui.rooms # DEFAULT_ROOMS) => ui'.rooms = ui.rooms]_vars
  /\ [][(now = 0 /\ now' = 1 /\ Seeds(lsRooms)) =>
          (lsRooms' = LsList(DEFAULT_ROOMS) /\ ui'.rooms = DEFAULT_ROOMS)]_vars

====
